---- MODULE Spec2Model ----
(***************************************************************************)
(* Model of nomad_tools/nomad_watch.py: the event cache (Db) and its       *)
(* thread, the job watchers built on it (NomadJobWatcher,                  *)
(* NomadJobWatcherUntilFinished, NomadJobWatcherUntilStarted), the task    *)
(* handlers (TaskHandler) and the aggregate exit code                      *)
(* (AllocWorkers.exitcode).                                                *)
(***************************************************************************)
EXTENDS Integers, Sequences, FiniteSets, TLC

VARIABLES
    db_job,        \* Db.job: the cached Job record, or None
    evaluations,   \* Db.evaluations: ID -> Eval record
    allocations,   \* Db.allocations: ID -> Alloc record
    deployments,   \* Db.deployments: ID -> Deploy record
    initialized,   \* Db.initialized (threading.Event)
    stopevent,     \* Db.stopevent (threading.Event)
    queue,         \* Db.queue: FIFO of batches, Sentinel for None
    job,           \* NomadJobWatcher.job: the watched job definition
    foundjob,      \* NomadJobWatcherUntilFinished.foundjob
    purged,        \* NomadJobWatcherUntilFinished.purged
    done,          \* NomadJobWatcher.done (threading.Event)
    args,          \* the command line options read by the watcher
    timeup,        \* time.time() > no_follow_timeend
    main_pc,       \* position of the main thread (mode_run / mode_stop_in)
    db_pc,         \* position of the Db background thread
    watch_pc,      \* position of the watcher thread (thread_run)
    server,        \* the scheduler: what its HTTP API and event stream answer
    last,          \* observation: outcome of the last handle_event / finish_cb
    accepted,      \* observation: greatest ModifyIndex accepted per identity
    taskhandlers,  \* AllocWorker.taskhandlers: exitcode of every TaskHandler
    exitstatus,    \* the value returned by AllocWorkers.exitcode(), or None
    started,       \* NomadJobWatcherUntilStarted.started
    logged,        \* observation: the Time of every allocation event logged
    produced,      \* observation: the batches the Db thread has put in the queue
    observed,      \* observation: what the task state snapshots have shown
    yielded,       \* observation: the batches Db.events() has yielded
    locals         \* the local variables of the function a thread executes

vars == <<db_job, evaluations, allocations, deployments, initialized,
          stopevent, queue, job, foundjob, purged, done, args, timeup,
          main_pc, db_pc, watch_pc, server, last, accepted,
          taskhandlers, exitstatus, started, logged, produced,
          observed, yielded, locals>>

dbvars == <<db_job, evaluations, allocations, deployments>>
exitvars == <<taskhandlers, exitstatus>>
othervars == <<started, logged, produced, observed, yielded, locals>>

----------------------------------------------------------------------------
(* Bounds of the model *)

MaxIndex == 2      \* ModifyIndex and JobModifyIndex range over 1..MaxIndex
MaxVersion == 1    \* Job Version / Alloc JobVersion range over 0..MaxVersion
MaxTasks == 3      \* task handlers in the exit code model
MaxQueue == 2      \* batches waiting in Db.queue
MaxEvents == 2     \* events in the Events list of a task state snapshot
MaxTime == 3       \* the Time of a task event ranges over 0..MaxTime
MaxLines == 2      \* args.lines ranges over -1..MaxLines
MaxProduced == 2   \* batches the Db thread puts in Db.queue in one run

----------------------------------------------------------------------------
(* Python None (for slots that hold records), dict.get and dict assignment *)

None == [IsNone |-> TRUE]

Get(d, k, default) == IF k \in DOMAIN d THEN d[k] ELSE default

Put(m, k, v) == [x \in DOMAIN m \cup {k} |-> IF x = k THEN v ELSE m[x]]

EmptyMap == [x \in {} |-> None]

----------------------------------------------------------------------------
(* The records of the scheduler (spec section 3) and the events built from *)
(* them.  An optional field of a payload is a field the record lacks.      *)

mynomad_namespace == "default"

Namespaces == {"default", "other"}
JobIDs == {"j1", "j2"}
EvalIDs == {"e1"}
AllocEvalIDs == {"e1", "e2"}
AllocIDs == {"a1"}
DeployIDs == {"d1"}
Indexes == 1..MaxIndex
Versions == 0..MaxVersion

JobStatuses == {"running", "dead"}
EvalStatuses == {"pending", "complete"}
AllocStatuses == {"pending", "running", "complete"}
DeployStatuses == {"initializing", "running", "pending", "blocked", "paused",
                   "successful", "failed", "canceled"}

Strip(r, f) == [k \in DOMAIN r \ {f} |-> r[k]]

\* Job records; JobModifyIndex never exceeds ModifyIndex.
JobsOf(nss, ids, idxs, jmis, vers, sts) ==
    { j \in { [ID |-> i, Namespace |-> n, ModifyIndex |-> m,
               JobModifyIndex |-> jm, Version |-> v, Status |-> s] :
                 i \in ids, n \in nss, m \in idxs, jm \in jmis,
                 v \in vers, s \in sts } :
        j.JobModifyIndex <= j.ModifyIndex }

\* Evaluation records, with the JobModifyIndex field and (missing) without.
EvalsOf(nss, jids, idxs, jmis, missing, sts) ==
    LET full == { [ID |-> i, Namespace |-> n, ModifyIndex |-> m, JobID |-> j,
                   JobModifyIndex |-> jm, Status |-> s] :
                    i \in EvalIDs, n \in nss, m \in idxs, j \in jids,
                    jm \in jmis, s \in sts }
    IN  full \cup IF missing THEN { Strip(r, "JobModifyIndex") : r \in full }
                  ELSE {}

\* Allocation records, with the JobVersion field and (missing) without.
AllocsOf(nss, jids, idxs, vers, missing, evs, sts) ==
    LET full == { [ID |-> i, Namespace |-> n, ModifyIndex |-> m, JobID |-> j,
                   JobVersion |-> v, EvalID |-> e, ClientStatus |-> s] :
                    i \in AllocIDs, n \in nss, m \in idxs, j \in jids,
                    v \in vers, e \in evs, s \in sts }
    IN  full \cup IF missing THEN { Strip(r, "JobVersion") : r \in full }
                  ELSE {}

\* Deployment records, with the JobModifyIndex field and (missing) without.
DeploysOf(nss, jids, idxs, jmis, missing, sts) ==
    LET full == { [ID |-> i, Namespace |-> n, ModifyIndex |-> m, JobID |-> j,
                   JobModifyIndex |-> jm, Status |-> s] :
                    i \in DeployIDs, n \in nss, m \in idxs, j \in jids,
                    jm \in jmis, s \in sts }
    IN  full \cup IF missing THEN { Strip(r, "JobModifyIndex") : r \in full }
                  ELSE {}

Event(topic, type, data) == [topic |-> topic, type |-> type, data |-> data]

UpdateType(topic) ==
    CASE topic = "Job" -> "JobRegistered"
      [] topic = "Evaluation" -> "EvaluationUpdated"
      [] topic = "Allocation" -> "AllocationUpdated"
      [] topic = "Deployment" -> "DeploymentStatusUpdate"

\* The events built from a set of records of one topic, of the given types
EventsOf(topic, types, records) ==
    { Event(topic, ty, d) : ty \in types, d \in records }

BothTypes(topic) == {UpdateType(topic), "JobDeregistered"}

----------------------------------------------------------------------------
(* nomadlib helpers used by the watcher *)

\* Alloc.is_pending_or_running()
is_pending_or_running(alloc) == alloc.ClientStatus \in {"pending", "running"}

\* Eval.is_pending()
is_pending(eval) == eval.Status = "pending"

\* Job.is_dead()
is_dead(j) == j.Status = "dead"

----------------------------------------------------------------------------
(* class Db: the cache.  db is the record of its four slots.               *)

DbOf(j, evals, allocs, deploys) ==
    [job |-> j, evaluations |-> evals, allocations |-> allocs,
     deployments |-> deploys]

\* Db.select_is_in_db
select_is_in_db(db, e) ==
    CASE e.topic = "Evaluation" -> e.data.ID \in DOMAIN db.evaluations
      [] e.topic = "Allocation" -> e.data.ID \in DOMAIN db.allocations
      [] e.topic = "Deployment" -> e.data.ID \in DOMAIN db.deployments
      [] OTHER -> FALSE

\* _add_event_to_db that forgets the JobDeregistered branch of the
\* Evaluation topic
add_event_to_db_no_eval_dereg(db, e) ==
    CASE e.topic = "Job" ->
            IF e.type = "JobDeregistered"
            THEN [db EXCEPT !.job = None]
            ELSE [db EXCEPT !.job = e.data]
      [] e.topic = "Evaluation" ->
            [db EXCEPT !.evaluations = Put(@, e.data.ID, e.data)]
      [] e.topic = "Allocation" ->
            [db EXCEPT !.allocations = Put(@, e.data.ID, e.data)]
      [] e.topic = "Deployment" ->
            [db EXCEPT !.deployments = Put(@, e.data.ID, e.data)]

\* Db._add_event_to_db
add_event_to_db(db, e) ==
    CASE e.topic = "Job" ->
            IF e.type = "JobDeregistered"
            THEN [db EXCEPT !.job = None]
            ELSE [db EXCEPT !.job = e.data]
      [] e.topic = "Evaluation" ->
            [db EXCEPT
                !.job = IF e.type = "JobDeregistered" THEN None ELSE @,
                !.evaluations = Put(@, e.data.ID, e.data)]
      [] e.topic = "Allocation" ->
            [db EXCEPT !.allocations = Put(@, e.data.ID, e.data)]
      [] e.topic = "Deployment" ->
            [db EXCEPT !.deployments = Put(@, e.data.ID, e.data)]

\* job_select comparing with >= instead of >
job_select_ge(db, j) == db.job = None \/ j.ModifyIndex >= db.job.ModifyIndex

\* The four lambdas of Db._select_new_event
job_select(db, j) == db.job = None \/ j.ModifyIndex > db.job.ModifyIndex

eval_select(db, eval) ==
    \/ eval.ID \notin DOMAIN db.evaluations
    \/ eval.ModifyIndex > db.evaluations[eval.ID].ModifyIndex

alloc_select(db, alloc) ==
    \/ alloc.ID \notin DOMAIN db.allocations
    \/ alloc.ModifyIndex > db.allocations[alloc.ID].ModifyIndex

deploy_select(db, deploy) ==
    \/ deploy.ID \notin DOMAIN db.deployments
    \/ deploy.ModifyIndex > db.deployments[deploy.ID].ModifyIndex

\* Db._select_new_event: apply_selects dispatches on the topic of the event
select_new_event(db, e) ==
    /\ e.data.Namespace = mynomad_namespace
    /\ CASE e.topic = "Job" -> job_select(db, e.data)
         [] e.topic = "Evaluation" -> eval_select(db, e.data)
         [] e.topic = "Allocation" -> alloc_select(db, e.data)
         [] e.topic = "Deployment" -> deploy_select(db, e.data)

----------------------------------------------------------------------------
(* class NomadJobWatcher: the event filter of the watched job.  w is       *)
(* self.job, all is args.all.                                              *)

\* NomadJobWatcher.db_select_event_jobid
db_select_event_jobid(w, e) ==
    CASE e.topic = "Job" -> e.data.ID = w.ID
      [] OTHER -> e.data.JobID = w.ID

eval_filter(w, eval) == Get(eval, "JobModifyIndex", -1) >= w.JobModifyIndex

\* alloc_filter without the route through the cached evaluation
alloc_filter_version_only(w, db, alloc) ==
    Get(alloc, "JobVersion", -1) >= w.Version

alloc_filter(w, db, alloc) ==
    \/ Get(alloc, "JobVersion", -1) >= w.Version
    \/ Get(Get(db.evaluations, alloc.EvalID, EmptyMap), "JobModifyIndex", -1)
            >= w.JobModifyIndex

deploy_filter(w, deploy) == Get(deploy, "JobModifyIndex", -1) >= w.JobModifyIndex

\* db_select_event_job that filters also with --all
db_select_event_job_always_filtered(all, w, db, e) ==
    /\ db_select_event_jobid(w, e)
    /\ CASE e.topic = "Job" -> TRUE
         [] e.topic = "Evaluation" -> eval_filter(w, e.data)
         [] e.topic = "Allocation" -> alloc_filter(w, db, e.data)
         [] e.topic = "Deployment" -> deploy_filter(w, e.data)

\* NomadJobWatcher.db_select_event_job
db_select_event_job(all, w, db, e) ==
    IF all THEN TRUE
    ELSE /\ db_select_event_jobid(w, e)
         /\ CASE e.topic = "Job" -> TRUE
              [] e.topic = "Evaluation" -> eval_filter(w, e.data)
              [] e.topic = "Allocation" -> alloc_filter(w, db, e.data)
              [] e.topic = "Deployment" -> deploy_filter(w, e.data)

\* handle_event without the pass for the identities already cached
handle_event_no_pass(all, w, db, e) ==
    IF select_new_event(db, e)
    THEN IF db_select_event_job(all, w, db, e)
         THEN [db |-> add_event_to_db(db, e), ret |-> TRUE]
         ELSE [db |-> db, ret |-> FALSE]
    ELSE [db |-> db, ret |-> FALSE]

\* Db.handle_event with select_event_cb = db_select_event_job: the cache
\* after the call and the value returned.
handle_event(all, w, db, e) ==
    IF select_new_event(db, e)
    THEN IF select_is_in_db(db, e) \/ db_select_event_job(all, w, db, e)
         THEN [db |-> add_event_to_db(db, e), ret |-> TRUE]
         ELSE [db |-> db, ret |-> FALSE]
    ELSE [db |-> db, ret |-> FALSE]

\* Db.handle_events: the events of the batch are handled in order; out is
\* the list of those accepted.
RECURSIVE handle_events_from(_, _, _, _, _)
handle_events_next(all, w, r, out, events) ==
    handle_events_from(all, w, r.db,
                       IF r.ret THEN Append(out, Head(events)) ELSE out,
                       Tail(events))

handle_events_from(all, w, db, out, events) ==
    IF events = <<>> THEN [db |-> db, out |-> out]
    ELSE handle_events_next(all, w, handle_event(all, w, db, Head(events)),
                            out, events)

handle_events(all, w, db, events) == handle_events_from(all, w, db, <<>>, events)

\* NomadJobWatcher.no_active_allocations_and_evaluations_and_deployments
ActiveDeploymentStatuses ==
    {"initializing", "running", "pending", "blocked", "paused"}

\* no_active_allocations_and_evaluations_and_deployments without the loop
\* over the deployments
no_active_allocations_and_evaluations(db) ==
    /\ \A a \in DOMAIN db.allocations : ~is_pending_or_running(db.allocations[a])
    /\ \A v \in DOMAIN db.evaluations : ~is_pending(db.evaluations[v])

no_active_allocations_and_evaluations_and_deployments(db) ==
    /\ \A a \in DOMAIN db.allocations : ~is_pending_or_running(db.allocations[a])
    /\ \A v \in DOMAIN db.evaluations : ~is_pending(db.evaluations[v])
    /\ \A d \in DOMAIN db.deployments :
            db.deployments[d].Status \notin ActiveDeploymentStatuses

\* finish_cb that accepts a dead job whether or not a purge was requested
finish_cb_dead_any_purge(w, db, found, purge) ==
    LET found2 == IF db.job # None THEN TRUE ELSE found
    IN  IF db.job = None /\ ~found
        THEN [ret |-> FALSE, foundjob |-> found]
        ELSE [foundjob |-> found2,
              ret |-> /\ no_active_allocations_and_evaluations_and_deployments(db)
                      /\ ((purge /\ db.job = None) \/ is_dead(w))]

\* finish_cb without the foundjob guard
finish_cb_no_guard(w, db, found, purge) ==
    [foundjob |-> IF db.job # None THEN TRUE ELSE found,
     ret |-> /\ no_active_allocations_and_evaluations_and_deployments(db)
             /\ IF purge THEN db.job = None ELSE is_dead(w)]

\* NomadJobWatcherUntilFinished.finish_cb: the value returned and foundjob
\* after the call.
finish_cb(w, db, found, purge) ==
    LET found2 == IF db.job # None THEN TRUE ELSE found
    IN  IF db.job = None /\ ~found
        THEN [ret |-> FALSE, foundjob |-> found]
        ELSE [foundjob |-> found2,
              ret |-> /\ no_active_allocations_and_evaluations_and_deployments(db)
                      /\ IF purge THEN db.job = None ELSE is_dead(w)]

\* NomadJobWatcher.thread_run, the Job branch of the loop over the accepted
\* events: self.job follows the newest job definition.
RECURSIVE follow_job(_, _, _)
follow_job(w, db, out) ==
    IF out = <<>> THEN w
    ELSE follow_job(
            IF /\ Head(out).topic = "Job"
               /\ db.job # None
               /\ w.ModifyIndex < db.job.ModifyIndex
            THEN db.job ELSE w,
            db, Tail(out))

----------------------------------------------------------------------------
(* The state machine: the watcher thread of a NomadJobWatcherUntilFinished *)
(* consuming Db.events(), and the main thread calling stop_job.            *)

DB == DbOf(db_job, evaluations, allocations, deployments)

WatchedJobID == "j1"

\* What NomadJobWatcher.db_init_cb returns: the deployments, evaluations and
\* allocations of the job, then the job (here at most one record before the
\* job), all as update events.
InitBatchesOf(jobs, evals, allocs, deploys) ==
    { pre \o <<Event("Job", "JobRegistered", j)>> :
        pre \in {<<>>}
                \cup { <<e>> : e \in EventsOf("Deployment",
                                        {"DeploymentStatusUpdate"}, deploys) }
                \cup { <<e>> : e \in EventsOf("Evaluation",
                                        {"EvaluationUpdated"}, evals) }
                \cup { <<e>> : e \in EventsOf("Allocation",
                                        {"AllocationUpdated"}, allocs) },
        j \in jobs }

\* What one line of the event stream carries: one event.
StreamBatchesOf(events) == { <<e>> : e \in events }

NoArgs == [all |-> FALSE, polling |-> FALSE, no_follow |-> FALSE,
           no_preserve_status |-> FALSE]

\* Observation of the last batch handled.  A specification observing the
\* cache ("cache") records whether the last event of the batch was new
\* (_select_new_event) and whether handle_event returned true for it.  One
\* observing the watcher ("finish") records what finish_cb returned ("none":
\* it was not called), the purge flag it read, and whether the Job slot was
\* filled at this or an earlier call of finish_cb.  One observing the filter
\* ("filter") records the topic of the last event of the batch, whether it
\* was new and what db_select_event_job returned for it.
NoLast == [new |-> FALSE, ret |-> FALSE, fin |-> "none", purged |-> FALSE,
           seen |-> FALSE, topic |-> "none", indb |-> FALSE,
           handled |-> FALSE, cached |-> FALSE]

\* The record of the event is the one the cache holds for its identity.
IsCached(db, e) ==
    CASE e.topic = "Job" -> db.job = e.data
      [] e.topic = "Evaluation" ->
            e.data.ID \in DOMAIN db.evaluations
                /\ db.evaluations[e.data.ID] = e.data
      [] e.topic = "Allocation" ->
            e.data.ID \in DOMAIN db.allocations
                /\ db.allocations[e.data.ID] = e.data
      [] e.topic = "Deployment" ->
            e.data.ID \in DOMAIN db.deployments
                /\ db.deployments[e.data.ID] = e.data

Front(q) == SubSeq(q, 1, Len(q) - 1)

Observe(obs, all, w, db, events, called, f, purge, filled) ==
    IF obs = "cache"
    THEN [NoLast EXCEPT
            !.new = select_new_event(db, events[Len(events)]),
            !.ret = handle_event(all, w, db, events[Len(events)]).ret]
    ELSE IF obs = "filter"
    THEN [NoLast EXCEPT
            !.new = select_new_event(db, events[Len(events)]),
            !.ret = db_select_event_job(all, w, db, events[Len(events)]),
            !.topic = events[Len(events)].topic,
            !.indb = select_is_in_db(db, events[Len(events)]),
            !.handled = handle_event(all, w, db, events[Len(events)]).ret,
            !.cached = IsCached(handle_event(all, w, db,
                                             events[Len(events)]).db,
                                events[Len(events)])]
    ELSE IF ~called THEN [last EXCEPT !.fin = "none"]
    ELSE [NoLast EXCEPT
            !.fin = IF f.ret THEN "true" ELSE "false",
            !.purged = purge,
            !.seen = last.seen \/ filled]

NoAccepted == [Job |-> 0, Evaluation |-> 0, Allocation |-> 0, Deployment |-> 0]

Max(a, b) == IF a >= b THEN a ELSE b

\* Observation ("cache"): the greatest ModifyIndex among the accepted events
\* of each topic (the model caches one identity per topic).
RECURSIVE Accept(_, _)
Accept(acc, out) ==
    IF out = <<>> THEN acc
    ELSE Accept([acc EXCEPT ![Head(out).topic] = Max(@, Head(out).data.ModifyIndex)],
                Tail(out))

WatcherInit(watched) ==
    /\ db_job = None
    /\ evaluations = EmptyMap
    /\ allocations = EmptyMap
    /\ deployments = EmptyMap
    /\ initialized = FALSE
    /\ stopevent = FALSE
    /\ queue = <<>>
    /\ job \in watched
    /\ foundjob = FALSE
    /\ purged = FALSE
    /\ done = FALSE
    /\ timeup = FALSE
    /\ main_pc = "start"
    /\ db_pc = "start"
    /\ watch_pc = "init"
    /\ last = NoLast
    /\ accepted = NoAccepted

\* Nothing observed: no snapshot delivered (state), no Time seen (times),
\* none seen more than once (again), no ExitCode of a Terminated event seen.
NoObserved == [state |-> "none", times |-> {}, again |-> {}, terminated |-> {},
               started |-> FALSE, dead |-> FALSE]

\* No function with local variables of interest is executing.
NoLocals == [fn |-> "none"]

ExitIdle ==
    /\ taskhandlers = <<>> /\ exitstatus = <<>>
    /\ started = FALSE /\ logged = <<>> /\ produced = <<>>
    /\ observed = NoObserved /\ yielded = <<>> /\ locals = NoLocals

\* NomadJobWatcher.thread_run: the body of the loop for one batch yielded by
\* Db.events(): the batch goes through handle_events, self.job follows the
\* Job events accepted, then the finish condition is evaluated.  done is set
\* by the next step (SetDone) when the condition held.
ThreadRunBody(events, obs) ==
    \E r \in {handle_events(args.all, job, DB, events)} :
    \E w \in {follow_job(job, r.db, r.out)} :
    \E evaluated \in {~done /\ ~args.all} :
    \E f \in {finish_cb(w, r.db, foundjob, purged)} :
        /\ db_job' = r.db.job
        /\ evaluations' = r.db.evaluations
        /\ allocations' = r.db.allocations
        /\ deployments' = r.db.deployments
        /\ job' = w
        /\ foundjob' = IF evaluated THEN f.foundjob ELSE foundjob
        /\ watch_pc' = IF (evaluated /\ f.ret) \/ (args.no_follow /\ timeup)
                       THEN "set_done" ELSE "loop"
        /\ accepted' = IF obs = "cache" THEN Accept(accepted, r.out) ELSE accepted
        /\ last' = Observe(obs, args.all, job,
                            handle_events(args.all, job, DB, Front(events)).db,
                            events, evaluated, f, purged, r.db.job # None)

\* Db.events(), first yield: init_cb() is handled and yielded, and
\* initialized is set when the generator is resumed after the loop body.
ThreadRunInit(batches, obs) ==
    /\ watch_pc = "init"
    /\ \E events \in batches : ThreadRunBody(events, obs)
    /\ initialized' = TRUE
    /\ UNCHANGED <<stopevent, queue, purged, done, args, timeup, main_pc,
                   db_pc, server, exitvars,
                   othervars>>

\* Db.events(), later yields: a batch received by the stream thread.
ThreadRunStream(batches, obs) ==
    /\ watch_pc = "loop"
    /\ initialized
    /\ \E events \in batches : ThreadRunBody(events, obs)
    /\ UNCHANGED <<initialized, stopevent, queue, purged, done, args, timeup,
                   main_pc, db_pc, server, exitvars,
                   othervars>>

\* NomadJobWatcher.thread_run: self.done.set()
SetDone ==
    /\ watch_pc = "set_done"
    /\ done' = TRUE
    /\ watch_pc' = "loop"
    /\ UNCHANGED <<dbvars, initialized, stopevent, queue, job, foundjob, purged,
                   args, timeup, main_pc, db_pc, server, last, accepted,
                   exitvars,
                   othervars>>

\* stop_job without self.db.initialized.wait()
StopJob_no_wait(purge) ==
    /\ main_pc = "start"
    /\ purged' = IF purge THEN TRUE ELSE purged
    /\ done' = IF purge THEN FALSE ELSE done
    /\ main_pc' = "stopped"
    /\ UNCHANGED <<dbvars, initialized, stopevent, queue, job, foundjob, args,
                   timeup, db_pc, watch_pc, server, last, accepted, exitvars,
                   othervars>>

\* NomadJobWatcherUntilFinished.stop_job(purge), called once by the main
\* thread (mode_run, mode_stop_in).
StopJob(purge) ==
    /\ main_pc = "start"
    /\ initialized
    /\ purged' = IF purge THEN TRUE ELSE purged
    /\ done' = IF purge THEN FALSE ELSE done
    /\ main_pc' = "stopped"
    /\ UNCHANGED <<dbvars, initialized, stopevent, queue, job, foundjob, args,
                   timeup, db_pc, watch_pc, server, last, accepted, exitvars,
                   othervars>>

----------------------------------------------------------------------------
(* Spec: the cache under a stream of events of every topic and type, from  *)
(* the watched and another job, namespace and ModifyIndex.  The jobs are   *)
(* running and no stop is requested, so that the watcher keeps watching.   *)

CacheJobs == JobsOf(Namespaces, JobIDs, Indexes, {1}, {0}, {"running"})
CacheEvals == EvalsOf(Namespaces, JobIDs, Indexes, {1}, FALSE, {"complete"})
CacheAllocs ==
    AllocsOf(Namespaces, JobIDs, Indexes, {0}, FALSE, {"e1"}, {"complete"})
CacheDeploys ==
    DeploysOf(Namespaces, JobIDs, Indexes, {1}, FALSE, {"successful"})

CacheEvents ==
    EventsOf("Job", BothTypes("Job"), CacheJobs)
    \cup EventsOf("Evaluation", BothTypes("Evaluation"), CacheEvals)
    \cup EventsOf("Allocation", BothTypes("Allocation"), CacheAllocs)
    \cup EventsOf("Deployment", BothTypes("Deployment"), CacheDeploys)

CacheWatched == JobsOf({mynomad_namespace}, {WatchedJobID}, Indexes, {1}, {0},
                       {"running"})

CacheInitBatches == InitBatchesOf(CacheJobs, CacheEvals, CacheAllocs, CacheDeploys)

CacheStreamBatches == StreamBatchesOf(CacheEvents)

Init ==
    /\ WatcherInit(CacheWatched)
    /\ args = NoArgs
    /\ server = None
    /\ ExitIdle

Next ==
    \/ ThreadRunInit(CacheInitBatches, "cache")
    \/ ThreadRunStream(CacheStreamBatches, "cache")

Spec == Init /\ [][Next]_vars

----------------------------------------------------------------------------
(* Claims about the cache, checked under Spec *)

\* The record cached for the identity of event e, or None
Cached(e) ==
    CASE e.topic = "Job" -> db_job
      [] e.topic = "Evaluation" -> Get(evaluations, e.data.ID, None)
      [] e.topic = "Allocation" -> Get(allocations, e.data.ID, None)
      [] e.topic = "Deployment" -> Get(deployments, e.data.ID, None)

\* C6: in every state reached once the cache is initialized, for every
\* event e (JobDeregistered included), handling e twice in succession makes
\* the second handle_event return false and leaves the four slots of the
\* cache as the first call left them.
C6_IdempotentIngestion ==
    initialized =>
        \A e \in CacheEvents :
            \A r1 \in {handle_event(args.all, job, DB, e)} :
                \A r2 \in {handle_event(args.all, job, r1.db, e)} :
                    ~r2.ret /\ r2.db = r1.db

\* C7: for every identity, the ModifyIndex of the cached record is the
\* greatest ModifyIndex of the events accepted so far for that identity.
C7_MonotoneCache ==
    /\ db_job # None => db_job.ModifyIndex = accepted.Job
    /\ \A i \in DOMAIN evaluations :
            evaluations[i].ModifyIndex = accepted.Evaluation
    /\ \A i \in DOMAIN allocations :
            allocations[i].ModifyIndex = accepted.Allocation
    /\ \A i \in DOMAIN deployments :
            deployments[i].ModifyIndex = accepted.Deployment

\* C8: _select_new_event(e) is true iff the namespace of e is the configured
\* one and no record is cached for the identity of e or the ModifyIndex of e
\* is strictly greater than the cached one; an event for which it is false
\* leaves the cache as it is and is not emitted, both for every event that
\* could be handled next and for the event that was handled last.
C8_SelectNewEvent ==
    /\ \A e \in CacheEvents :
        /\ select_new_event(DB, e) <=>
                /\ e.data.Namespace = mynomad_namespace
                /\ \/ Cached(e) = None
                   \/ e.data.ModifyIndex > Cached(e).ModifyIndex
        /\ ~select_new_event(DB, e) =>
                /\ ~handle_event(args.all, job, DB, e).ret
                /\ handle_event(args.all, job, DB, e).db = DB
    /\ ~last.new => ~last.ret

\* C8 witness: a stream event that was not new has been handled and was not
\* emitted, with a record cached for every identity.
C8_Witness ==
    /\ initialized /\ watch_pc = "loop"
    /\ ~last.new /\ ~last.ret /\ accepted.Job > 0
    /\ db_job # None
    /\ evaluations # EmptyMap /\ allocations # EmptyMap /\ deployments # EmptyMap

\* C9 as stated: an accepted JobDeregistered event of any of the four topics
\* clears the Job slot, and no JobDeregistered event removes an entry of the
\* evaluations, allocations or deployments maps.
C9_DeregisteredAnyTopic ==
    \A e \in { x \in CacheEvents : x.type = "JobDeregistered" } :
        \A r \in {handle_event(args.all, job, DB, e)} :
            /\ r.ret => r.db.job = None
            /\ DOMAIN evaluations \subseteq DOMAIN r.db.evaluations
            /\ DOMAIN allocations \subseteq DOMAIN r.db.allocations
            /\ DOMAIN deployments \subseteq DOMAIN r.db.deployments

\* C9 amended: an accepted JobDeregistered event of the Job or the
\* Evaluation topic clears the Job slot; one of the Allocation or the
\* Deployment topic leaves the Job slot as it is; no JobDeregistered event
\* removes an entry of the evaluations, allocations or deployments maps.
C9_DeregisteredJobOrEval ==
    \A e \in { x \in CacheEvents : x.type = "JobDeregistered" } :
        \A r \in {handle_event(args.all, job, DB, e)} :
            /\ r.ret /\ e.topic \in {"Job", "Evaluation"} => r.db.job = None
            /\ e.topic \in {"Allocation", "Deployment"} => r.db.job = db_job
            /\ DOMAIN evaluations \subseteq DOMAIN r.db.evaluations
            /\ DOMAIN allocations \subseteq DOMAIN r.db.allocations
            /\ DOMAIN deployments \subseteq DOMAIN r.db.deployments

\* C9 witness: the Job slot, once filled, has been cleared (only an accepted
\* JobDeregistered event does that) and the three maps still hold a record.
C9_Witness ==
    /\ foundjob /\ db_job = None /\ last.ret
    /\ evaluations # EmptyMap /\ allocations # EmptyMap /\ deployments # EmptyMap

----------------------------------------------------------------------------
(* FinishSpec: the Until-Finished watcher under events of the watched job  *)
(* in every status.  The job and its allocation are updated (ModifyIndex   *)
(* in Indexes); its evaluation and its deployment are delivered with one   *)
(* ModifyIndex.                                                            *)

FinJobs == JobsOf(Namespaces, {WatchedJobID}, Indexes, {1}, {0}, JobStatuses)
FinEvals ==
    EvalsOf({mynomad_namespace}, {WatchedJobID}, {1}, {1}, FALSE, EvalStatuses)
FinAllocs ==
    AllocsOf({mynomad_namespace}, {WatchedJobID}, Indexes, {0}, FALSE, {"e1"},
             AllocStatuses)
FinDeploys ==
    DeploysOf({mynomad_namespace}, {WatchedJobID}, {1}, {1}, FALSE,
              DeployStatuses)

FinEvents ==
    EventsOf("Job", BothTypes("Job"), FinJobs)
    \cup EventsOf("Evaluation", BothTypes("Evaluation"), FinEvals)
    \cup EventsOf("Allocation", {"AllocationUpdated"}, FinAllocs)
    \cup EventsOf("Deployment", {"DeploymentStatusUpdate"}, FinDeploys)

FinWatched == JobsOf({mynomad_namespace}, {WatchedJobID}, Indexes, {1}, {0},
                     JobStatuses)

FinInitBatches == InitBatchesOf(FinJobs, FinEvals, FinAllocs, FinDeploys)

FinStreamBatches == StreamBatchesOf(FinEvents)

FinishInit ==
    /\ WatcherInit(FinWatched)
    /\ args = NoArgs
    /\ server = None
    /\ ExitIdle

FinishNext ==
    \/ ThreadRunInit(FinInitBatches, "finish")
    \/ ThreadRunStream(FinStreamBatches, "finish")
    \/ SetDone
    \/ \E purge \in BOOLEAN : StopJob(purge)

FinishSpec == FinishInit /\ [][FinishNext]_vars

----------------------------------------------------------------------------
(* FilterSpec: the filter of the watcher under events of two jobs whose    *)
(* JobVersion and JobModifyIndex vary or are missing.  The jobs are        *)
(* running, so that the watcher keeps watching, and were last modified by  *)
(* their submission (ModifyIndex = JobModifyIndex).                        *)

FilterJobs ==
    { j \in JobsOf({mynomad_namespace}, JobIDs, Indexes, Indexes, Versions,
                   {"running"}) : j.JobModifyIndex = j.ModifyIndex }
FilterEvals ==
    EvalsOf({mynomad_namespace}, JobIDs, {1}, Indexes, TRUE, {"complete"})
FilterAllocs ==
    AllocsOf({mynomad_namespace}, JobIDs, {1}, Versions, TRUE, AllocEvalIDs,
             {"complete"})
FilterDeploys ==
    DeploysOf({mynomad_namespace}, JobIDs, {1}, Indexes, TRUE, {"successful"})

FilterEvents ==
    EventsOf("Job", {"JobRegistered"}, FilterJobs)
    \cup EventsOf("Evaluation", {"EvaluationUpdated"}, FilterEvals)
    \cup EventsOf("Allocation", {"AllocationUpdated"}, FilterAllocs)
    \cup EventsOf("Deployment", {"DeploymentStatusUpdate"}, FilterDeploys)

FilterWatched == { j \in FilterJobs : j.ID = WatchedJobID }

FilterInitBatches ==
    InitBatchesOf({ j \in FilterJobs : j.ID = WatchedJobID }, FilterEvals,
                  FilterAllocs, FilterDeploys)

FilterStreamBatches == StreamBatchesOf(FilterEvents)

FilterInit ==
    /\ WatcherInit(FilterWatched)
    /\ args = NoArgs
    /\ server = None
    /\ ExitIdle

FilterNext ==
    \/ ThreadRunInit(FilterInitBatches, "filter")
    \/ ThreadRunStream(FilterStreamBatches, "filter")

FilterSpec == FilterInit /\ [][FilterNext]_vars

\* The value of an optional integer field, -1 when the record lacks it.
FieldOrMinus1(r, f) == IF f \in DOMAIN r THEN r[f] ELSE -1

\* C10: without --all, db_select_event_job accepts an event iff it belongs
\* to the watched JobID and: Job: always; Evaluation: its JobModifyIndex >=
\* the watched job's; Allocation: its JobVersion >= the watched Version, or
\* its EvalID names a cached evaluation whose JobModifyIndex >= the watched
\* one; Deployment: its JobModifyIndex >= the watched one; a missing
\* JobVersion or JobModifyIndex counts as -1.
C10_SelectEventJob ==
    \A e \in FilterEvents :
        db_select_event_job(args.all, job, DB, e) <=>
            /\ (IF e.topic = "Job" THEN e.data.ID ELSE e.data.JobID) = job.ID
            /\ \/ e.topic = "Job"
               \/ /\ e.topic = "Evaluation"
                  /\ FieldOrMinus1(e.data, "JobModifyIndex") >= job.JobModifyIndex
               \/ /\ e.topic = "Allocation"
                  /\ \/ FieldOrMinus1(e.data, "JobVersion") >= job.Version
                     \/ /\ e.data.EvalID \in DOMAIN evaluations
                        /\ FieldOrMinus1(evaluations[e.data.EvalID],
                                         "JobModifyIndex") >= job.JobModifyIndex
               \/ /\ e.topic = "Deployment"
                  /\ FieldOrMinus1(e.data, "JobModifyIndex") >= job.JobModifyIndex

\* An allocation without JobVersion was accepted because its evaluation is
\* cached with a JobModifyIndex that is recent enough.
C10_Witness ==
    /\ ~args.all
    /\ last.topic = "Allocation" /\ last.new /\ last.ret
    /\ \E a \in DOMAIN allocations :
        /\ "JobVersion" \notin DOMAIN allocations[a]
        /\ allocations[a].EvalID \in DOMAIN evaluations
        /\ evaluations[allocations[a].EvalID].JobModifyIndex >= job.JobModifyIndex

----------------------------------------------------------------------------
(* Claims about the finish condition, checked under FinishSpec.            *)

NoActiveWork ==
    /\ \A a \in DOMAIN allocations :
            allocations[a].ClientStatus \notin {"pending", "running"}
    /\ \A v \in DOMAIN evaluations : evaluations[v].Status # "pending"
    /\ \A d \in DOMAIN deployments :
            deployments[d].Status \notin
                {"initializing", "running", "pending", "blocked", "paused"}

\* C2: finish_cb never returns true in a state where some cached Allocation
\* is pending or running, some cached Evaluation is pending, or some cached
\* Deployment is initializing, running, pending, blocked or paused, after
\* any sequence of batches and whatever the purge flag.
C2_NoPrematureTermination == last.fin = "true" => NoActiveWork

\* finish_cb has returned true with the purge flag set, and it has refused
\* a cache holding a paused deployment next to a dead job.
C2_Witness ==
    /\ last.fin = "false"
    /\ job.Status = "dead" /\ db_job # None
    /\ ~last.purged
    /\ \E d \in DOMAIN deployments : deployments[d].Status = "paused"
    /\ \A a \in DOMAIN allocations : allocations[a].ClientStatus = "complete"
    /\ \A v \in DOMAIN evaluations : evaluations[v].Status = "complete"

\* C3 as stated: once the Job record has been observed and no active work
\* remains, finish_cb returns true iff a purge was requested and the Job
\* slot is cleared, or the job is dead, the latter whether or not a purge
\* was requested.
C3_DeadRegardlessOfPurge ==
    (last.fin # "none" /\ last.seen /\ NoActiveWork) =>
        (last.fin = "true" <=>
            ((last.purged /\ db_job = None) \/ job.Status = "dead"))

\* C3: once the Job record has been observed and no active work remains,
\* finish_cb returns true iff, when a purge was requested, the Job slot is
\* cleared and, when none was requested, the watcher's job is dead.
C3_DeadOrPurged ==
    (last.fin # "none" /\ last.seen /\ NoActiveWork) =>
        (last.fin = "true" <=>
            IF last.purged THEN db_job = None ELSE job.Status = "dead")

\* finish_cb returned false for a dead job with no active work, because a
\* purge was requested and the Job slot is still filled.
C3_Witness ==
    /\ last.fin = "false"
    /\ last.purged
    /\ last.seen
    /\ db_job # None /\ db_job.Status = "dead" /\ job.Status = "dead"
    /\ NoActiveWork

\* C4: finish_cb returns false in every call made before the Job slot was
\* filled at this or an earlier call, whatever the rest of the cache and the
\* purge flag; once it was filled, a cleared Job slot lets finish_cb return
\* true.
C4_FoundJobGuard ==
    /\ last.fin = "true" => last.seen
    /\ (last.fin # "none" /\ last.seen /\ last.purged /\ db_job = None
            /\ NoActiveWork) => last.fin = "true"

\* finish_cb returned false only because the job was never seen: a purge
\* was requested, the Job slot is empty and no work is active.
C4_Witness ==
    /\ last.fin = "false"
    /\ ~last.seen
    /\ last.purged
    /\ db_job = None
    /\ NoActiveWork
    /\ job.Status = "dead"

----------------------------------------------------------------------------
(* ExitSpec: the task handlers of the allocation workers and the exit      *)
(* status computed from them.  taskhandlers is the list of the handlers in *)
(* the order AllocWorkers.exitcode visits them (worker by worker); an      *)
(* Optional[int] is the empty sequence (None) or a sequence of one value.  *)

\* class ExitCode
ExitCode ==
    [success |-> 0, exception |-> 1, interrupted |-> 2,
     any_failed_tasks |-> 124, all_failed_tasks |-> 125,
     any_unfinished_tasks |-> 126, no_allocations |-> 127]

\* What a task reports in the ExitCode of its Terminated event.
TaskExitCodes == {-1, 0, 3}

\* The task states AllocWorker.notify passes on: not dead or without a
\* Terminated event (the empty sequence), or dead with the ExitCode of the
\* Terminated event.
TaskStates == {<<>>} \cup { <<c>> : c \in TaskExitCodes }

\* TaskHandler(): a new handler
NewTaskHandler == [exitcode |-> <<>>]

\* TaskHandler.notify, the exit code: it is set once, by the first dead task
\* state that has a Terminated event.
taskhandler_notify(th, taskstate) ==
    IF th.exitcode = <<>> /\ taskstate # <<>>
    THEN [th EXCEPT !.exitcode = taskstate]
    ELSE th

InsertAt(q, p, x) == SubSeq(q, 1, p - 1) \o <<x>> \o SubSeq(q, p, Len(q))

\* The list of exit codes AllocWorkers.exitcode builds: -1 for a handler
\* whose exitcode is None.
exitcodes_of(ths) ==
    [i \in 1..Len(ths) |->
        IF ths[i].exitcode = <<>> THEN -1 ELSE ths[i].exitcode[1]]

\* AllocWorkers.exitcode without the branch of the single task
exitcode_no_single(ths) ==
    LET exitcodes == exitcodes_of(ths)
    IN  IF Len(exitcodes) = 0 THEN ExitCode.no_allocations
        ELSE IF \E i \in DOMAIN exitcodes : exitcodes[i] = -1
             THEN ExitCode.any_unfinished_tasks
        ELSE IF \A i \in DOMAIN exitcodes : exitcodes[i] # 0
             THEN ExitCode.all_failed_tasks
        ELSE IF \E i \in DOMAIN exitcodes : exitcodes[i] # 0
             THEN ExitCode.any_failed_tasks
        ELSE ExitCode.success

\* AllocWorkers.exitcode
exitcode(ths) ==
    LET exitcodes == exitcodes_of(ths)
    IN  IF Len(exitcodes) = 0 THEN ExitCode.no_allocations
        ELSE IF \E i \in DOMAIN exitcodes : exitcodes[i] = -1
             THEN ExitCode.any_unfinished_tasks
        ELSE IF Len(exitcodes) = 1 THEN exitcodes[1]
        ELSE IF \A i \in DOMAIN exitcodes : exitcodes[i] # 0
             THEN ExitCode.all_failed_tasks
        ELSE IF \E i \in DOMAIN exitcodes : exitcodes[i] # 0
             THEN ExitCode.any_failed_tasks
        ELSE ExitCode.success

\* AllocWorker.notify for a task seen for the first time: setdefault creates
\* its handler, which is then notified.
NotifyNewTask ==
    /\ exitstatus = <<>>
    /\ Len(taskhandlers) < MaxTasks
    /\ \E p \in 1..(Len(taskhandlers) + 1), taskstate \in TaskStates :
        taskhandlers' =
            InsertAt(taskhandlers, p, taskhandler_notify(NewTaskHandler, taskstate))
    /\ UNCHANGED <<dbvars, initialized, stopevent, queue, job, foundjob,
                   purged, done, args, timeup, main_pc, db_pc, watch_pc,
                   server, last, accepted, exitstatus,
                   othervars>>

\* AllocWorker.notify for a task that has a handler
NotifyTask ==
    /\ exitstatus = <<>>
    /\ \E i \in DOMAIN taskhandlers, taskstate \in TaskStates :
        /\ taskhandler_notify(taskhandlers[i], taskstate) # taskhandlers[i]
        /\ taskhandlers' =
            [taskhandlers EXCEPT ![i] = taskhandler_notify(@, taskstate)]
    /\ UNCHANGED <<dbvars, initialized, stopevent, queue, job, foundjob,
                   purged, done, args, timeup, main_pc, db_pc, watch_pc,
                   server, last, accepted, exitstatus,
                   othervars>>

\* The exit status of the program is taken from AllocWorkers.exitcode().
GetExitcode ==
    /\ exitstatus = <<>>
    /\ exitstatus' = <<exitcode(taskhandlers)>>
    /\ UNCHANGED <<dbvars, initialized, stopevent, queue, job, foundjob,
                   purged, done, args, timeup, main_pc, db_pc, watch_pc,
                   server, last, accepted, taskhandlers,
                   othervars>>

ExitInit ==
    /\ WatcherInit(CacheWatched)
    /\ args = NoArgs
    /\ server = None
    /\ ExitIdle

ExitNext == NotifyNewTask \/ NotifyTask \/ GetExitcode

ExitSpec == ExitInit /\ [][ExitNext]_vars

\* The list E of the claim: one entry per task handler, -1 for an unset
\* exit code.
E == [i \in 1..Len(taskhandlers) |->
        IF taskhandlers[i].exitcode = <<>> THEN -1
        ELSE taskhandlers[i].exitcode[1]]

\* C1: AllocWorkers.exitcode() is 127 if E is empty; otherwise 126 if any
\* entry is -1; otherwise E[0] if E has exactly one entry; otherwise 125 if
\* every entry is non-zero; otherwise 124 if some entry is non-zero;
\* otherwise 0.
C1_ExitcodeTable ==
    exitstatus # <<>> =>
        exitstatus[1] =
            CASE Len(E) = 0 -> 127
              [] Len(E) > 0 /\ (\E i \in DOMAIN E : E[i] = -1) -> 126
              [] Len(E) = 1 /\ E[1] # -1 -> E[1]
              [] Len(E) > 1 /\ (\A i \in DOMAIN E : E[i] \notin {-1, 0}) -> 125
              [] Len(E) > 1 /\ (\A i \in DOMAIN E : E[i] # -1)
                    /\ (\E i \in DOMAIN E : E[i] # 0)
                    /\ (\E i \in DOMAIN E : E[i] = 0) -> 124
              [] OTHER -> 0

\* Two tasks, one exits 0 and one exits 3: the exit status is 124.
C1_Witness ==
    /\ Len(taskhandlers) = 2
    /\ { taskhandlers[i].exitcode : i \in DOMAIN taskhandlers } = {<<0>>, <<3>>}
    /\ exitstatus = <<124>>

----------------------------------------------------------------------------
(* PurgeSpec: a purge of the watched job, with the scheduler, the database *)
(* thread (stream or polling) and Db.queue between it and the watcher.     *)
(* server is the scheduler: its job (None once removed), the allocations   *)
(* of the job, and the batches it has yet to send on the event stream.     *)

PurgeJobs ==
    JobsOf({mynomad_namespace}, {WatchedJobID}, {1}, {1}, {0}, JobStatuses)

PurgeAllocs ==
    AllocsOf({mynomad_namespace}, {WatchedJobID}, {1}, {0}, FALSE, {"e1"},
             {"complete"})

\* The scheduler executes the purge of the job: job/{id} is gone, and the
\* event stream has a JobDeregistered event of the Job topic to send.
nomad_purge_job(srv) ==
    [srv EXCEPT
        !.job = None,
        !.outbox = Append(@, <<Event("Job", "JobDeregistered",
                                     [srv.job EXCEPT !.ModifyIndex = @ + 1,
                                                     !.Status = "dead"])>>)]

\* An item of Db.queue: a batch of events; None ends Db.events().
QueueItem(events) == [events |-> events]

\* NomadJobWatcher.db_init_cb, the job being there
db_init_cb(srv) ==
    (IF srv.allocations = {} THEN <<>>
     ELSE <<Event("Allocation", "AllocationUpdated",
                  CHOOSE a \in srv.allocations : TRUE)>>)
    \o <<Event("Job", "JobRegistered", srv.job)>>

\* NomadJobWatcherUntilFinished.db_init_cb as _thread_poll calls it: the
\* item put in the queue, None when JobNotFound ends the thread.
UntilFinished_db_init_cb(srv, w, purge) ==
    IF srv.job # None THEN QueueItem(db_init_cb(srv))
    ELSE IF purge THEN QueueItem(<<Event("Job", "JobRegistered", w)>>)
    ELSE None

\* Db.events(), first yield, with the scheduler's answer to init_cb()
ThreadRunInitServer ==
    /\ server.job # None
    /\ ThreadRunInit({db_init_cb(server)}, "finish")

\* Db._thread_run_stream: a line of the stream is put in the queue.
ThreadRunStreamLine ==
    /\ ~args.polling
    /\ db_pc = "start"
    /\ ~stopevent
    /\ server.outbox # <<>>
    /\ Len(queue) < MaxQueue
    /\ queue' = Append(queue, QueueItem(Head(server.outbox)))
    /\ server' = [server EXCEPT !.outbox = Tail(@)]
    /\ UNCHANGED <<dbvars, initialized, stopevent, job, foundjob, purged, done,
                   args, timeup, main_pc, db_pc, watch_pc, last, accepted,
                   exitvars,
                   othervars>>

\* Db._thread_poll: one turn of the loop; _thread_entry puts None when
\* init_cb raises.
ThreadPoll ==
    /\ args.polling
    /\ db_pc = "start"
    /\ initialized
    /\ ~stopevent
    /\ Len(queue) < MaxQueue
    /\ \E item \in {UntilFinished_db_init_cb(server, job, purged)} :
        /\ queue' = Append(queue, item)
        /\ db_pc' = IF item = None THEN "exited" ELSE db_pc
    /\ UNCHANGED <<dbvars, initialized, stopevent, job, foundjob, purged, done,
                   args, timeup, main_pc, watch_pc, server, last, accepted,
                   exitvars,
                   othervars>>

\* Db.events(), later yields: a batch is taken from the queue; None ends
\* the generator and with it thread_run.
ThreadRunQueue ==
    /\ watch_pc = "loop"
    /\ initialized
    /\ queue # <<>>
    /\ queue' = Tail(queue)
    /\ IF Head(queue) = None
       THEN /\ watch_pc' = "exited"
            /\ UNCHANGED <<dbvars, job, foundjob, last, accepted>>
       ELSE ThreadRunBody(Head(queue).events, "finish")
    /\ UNCHANGED <<initialized, stopevent, purged, done, args, timeup,
                   main_pc, db_pc, server, exitvars,
                   othervars>>

\* The scheduler serves the stop request of stop_job(purge = true).
NomadPurgeJob ==
    /\ main_pc = "stopped"
    /\ purged
    /\ server.job # None
    /\ server' = nomad_purge_job(server)
    /\ UNCHANGED <<dbvars, initialized, stopevent, queue, job, foundjob,
                   purged, done, args, timeup, main_pc, db_pc, watch_pc, last,
                   accepted, exitvars,
                   othervars>>

PurgeInit ==
    /\ WatcherInit(PurgeJobs)
    /\ args \in { [NoArgs EXCEPT !.polling = polling] : polling \in BOOLEAN }
    /\ server \in { [job |-> job, allocations |-> allocs, outbox |-> <<>>] :
                        allocs \in { a \in SUBSET PurgeAllocs : Cardinality(a) <= 1 } }
    /\ ExitIdle

PurgeNext ==
    \/ ThreadRunInitServer
    \/ ThreadRunStreamLine
    \/ ThreadPoll
    \/ ThreadRunQueue
    \/ SetDone
    \/ StopJob(TRUE)
    \/ NomadPurgeJob

\* The threads of the program and the scheduler keep running.
PurgeSpec ==
    /\ PurgeInit
    /\ [][PurgeNext]_vars
    /\ WF_vars(ThreadRunInitServer)
    /\ WF_vars(ThreadRunStreamLine)
    /\ WF_vars(ThreadPoll)
    /\ WF_vars(ThreadRunQueue)
    /\ WF_vars(SetDone)
    /\ WF_vars(NomadPurgeJob)

\* C5: after stop_job(purge = true), once the scheduler has removed the job
\* and no cached allocation, evaluation or deployment is active, the
\* watcher eventually sets done, in stream mode and in polling mode alike.
C5_PurgeSetsDone ==
    (purged /\ server.job = None /\ NoActiveWork) ~> done

----------------------------------------------------------------------------
(* StartedSpec: job_is_started of the Until-Started watcher, applied to a  *)
(* job with task groups and a cache of allocations of those groups.  A     *)
(* task of a group is [Name, Lifecycle]: it has no Lifecycle field, or the *)
(* field is None, or it is [Hook, Sidecar].  The TaskStates of an          *)
(* allocation map a task name to the types of its events.                  *)

Task(name) == [Name |-> name]
LifecycleTask(name, lifecycle) == [Name |-> name, Lifecycle |-> lifecycle]

\* nomadlib: Lifecycle.get_sidecar()
get_sidecar(lifecycle) == lifecycle.Sidecar

\* nomadlib: AllocTaskState.was_started()
was_started(taskstate) == "Started" \in taskstate.Events

\* allmaintasks that counts every prestart task, sidecar or not
allmaintasks_any_prestart(group) ==
    { group.Tasks[i].Name : i \in
        { k \in DOMAIN group.Tasks :
            \/ "Lifecycle" \notin DOMAIN group.Tasks[k]
            \/ group.Tasks[k].Lifecycle = None
            \/ group.Tasks[k].Lifecycle.Hook = "prestart"
            \/ group.Tasks[k].Lifecycle.Hook = "poststart" } }

\* job_is_started: the main tasks of a group
allmaintasks(group) ==
    { group.Tasks[i].Name : i \in
        { k \in DOMAIN group.Tasks :
            \/ "Lifecycle" \notin DOMAIN group.Tasks[k]
            \/ group.Tasks[k].Lifecycle = None
            \/ /\ group.Tasks[k].Lifecycle.Hook = "prestart"
               /\ get_sidecar(group.Tasks[k].Lifecycle) = TRUE
            \/ group.Tasks[k].Lifecycle.Hook = "poststart" } }

\* job_is_started: the tasks of an allocation that were started
startedtasks(alloc) ==
    { name \in DOMAIN alloc.TaskStates : was_started(alloc.TaskStates[name]) }

\* job_is_started: the cached allocations of the group that pass the job
\* version rule, in the order of the dict (order lists the IDs).
groupallocs(w, db, order, group) ==
    SelectSeq([i \in DOMAIN order |-> db.allocations[order[i]]],
              LAMBDA alloc : /\ alloc.TaskGroup = group.Name
                             /\ alloc_filter(w, db, alloc))

\* job_is_started: groupallocs.sort(key = ModifyIndex, reverse = True)[0];
\* the sort is stable, so of the allocations with the greatest ModifyIndex
\* the first of the dict is taken.
lastalloc(ga) ==
    ga[CHOOSE i \in DOMAIN ga :
        /\ \A k \in DOMAIN ga : ga[k].ModifyIndex <= ga[i].ModifyIndex
        /\ \A k \in 1..(i - 1) : ga[k].ModifyIndex < ga[i].ModifyIndex]

\* job_is_started that takes the least recently modified allocation
job_is_started_oldest(w, db, order) ==
    IF w.TaskGroups = <<>> THEN FALSE
    ELSE \A g \in DOMAIN w.TaskGroups :
            \E ga \in {groupallocs(w, db, order, w.TaskGroups[g])} :
                /\ ga # <<>>
                /\ \E i \in DOMAIN ga :
                    /\ \A k \in DOMAIN ga : ga[i].ModifyIndex <= ga[k].ModifyIndex
                    /\ allmaintasks(w.TaskGroups[g]) \subseteq startedtasks(ga[i])

\* NomadJobWatcherUntilStarted.job_is_started: the value returned
job_is_started(w, db, order) ==
    IF w.TaskGroups = <<>> THEN FALSE
    ELSE \A g \in DOMAIN w.TaskGroups :
            \E ga \in {groupallocs(w, db, order, w.TaskGroups[g])} :
                /\ ga # <<>>
                /\ allmaintasks(w.TaskGroups[g]) \subseteq startedtasks(lastalloc(ga))

\* The orders in which a dict can hold the keys ids.
OrdersOf(ids) ==
    { q \in [1..Cardinality(ids) -> ids] : \A k \in ids : \E i \in DOMAIN q : q[i] = k }

\* finish_cb that does not bail out when the job is dead
started_finish_cb_no_dead(w, db, order, was) ==
    IF job_is_started(w, db, order)
    THEN [ret |-> TRUE, started |-> TRUE]
    ELSE [ret |-> FALSE, started |-> was]

\* NomadJobWatcherUntilStarted.finish_cb: the value returned and started
\* after the call.
started_finish_cb(w, db, order, was) ==
    IF job_is_started(w, db, order)
    THEN [ret |-> TRUE, started |-> TRUE]
    ELSE [ret |-> is_dead(w)
                    /\ no_active_allocations_and_evaluations_and_deployments(db),
          started |-> was]

\* NomadJobWatcher.thread_run of an Until-Started watcher: the body of the
\* loop for one batch yielded by Db.events().
StartedThreadRunBody(events) ==
    \E r \in {handle_events(args.all, job, DB, events)} :
    \E w \in {follow_job(job, r.db, r.out)} :
    \E evaluated \in {~done /\ ~args.all} :
    \E order \in OrdersOf(DOMAIN r.db.allocations) :
    \E f \in {started_finish_cb(w, r.db, order, started)} :
        /\ db_job' = r.db.job
        /\ evaluations' = r.db.evaluations
        /\ allocations' = r.db.allocations
        /\ deployments' = r.db.deployments
        /\ job' = w
        /\ started' = IF evaluated THEN f.started ELSE started
        /\ watch_pc' = IF (evaluated /\ f.ret) \/ (args.no_follow /\ timeup)
                       THEN "set_done" ELSE "loop"
        /\ last' = [NoLast EXCEPT
                        !.fin = IF ~evaluated THEN "none"
                                ELSE IF f.ret THEN "true" ELSE "false"]

\* Db.events(), first yield, consumed by an Until-Started watcher
StartedThreadRunInit(batches) ==
    /\ watch_pc = "init"
    /\ exitstatus = <<>>
    /\ \E events \in batches : StartedThreadRunBody(events)
    /\ initialized' = TRUE
    /\ UNCHANGED <<stopevent, queue, foundjob, purged, done, args, timeup,
                   main_pc, db_pc, server, accepted, exitvars, logged,
                   produced, observed, yielded,
                   locals>>

\* Db.events(), later yields, consumed by an Until-Started watcher
StartedThreadRunStream(batches) ==
    /\ watch_pc = "loop"
    /\ initialized
    /\ exitstatus = <<>>
    /\ \E events \in batches : StartedThreadRunBody(events)
    /\ UNCHANGED <<initialized, stopevent, queue, foundjob, purged, done, args,
                   timeup, main_pc, db_pc, server, accepted, exitvars, logged,
                   produced, observed, yielded,
                   locals>>

\* NomadJobWatcherUntilStarted._get_exitcode
started_get_exitcode(st) ==
    IF st THEN ExitCode.success ELSE ExitCode.interrupted

\* NomadJobWatcher.run_and_exit of an Until-Started watcher: wait() has
\* returned, stop() is called and the program exits with get_exitcode().
StartedRunAndExit ==
    /\ main_pc = "start"
    /\ done
    /\ stopevent' = TRUE
    /\ initialized' = TRUE
    /\ exitstatus' = <<started_get_exitcode(started)>>
    /\ main_pc' = "exited"
    /\ UNCHANGED <<dbvars, queue, job, foundjob, purged, done, args, timeup,
                   db_pc, watch_pc, server, last, accepted, taskhandlers,
                   othervars>>

\* The tasks of the two groups: m has no Lifecycle, n has Lifecycle None, s
\* is a prestart sidecar, p a prestart task, q a poststart and r a poststop
\* task.
TaskM == Task("m")
TaskN == LifecycleTask("n", None)
TaskS == LifecycleTask("s", [Hook |-> "prestart", Sidecar |-> TRUE])
TaskP == LifecycleTask("p", [Hook |-> "prestart", Sidecar |-> FALSE])
TaskQ == LifecycleTask("q", [Hook |-> "poststart", Sidecar |-> FALSE])
TaskR == LifecycleTask("r", [Hook |-> "poststop", Sidecar |-> FALSE])

Group1 == [Name |-> "g1", Tasks |-> <<TaskM, TaskS, TaskP>>]
Group2 == [Name |-> "g2", Tasks |-> <<TaskN, TaskQ, TaskR>>]

TaskNames(group) == { group.Tasks[i].Name : i \in DOMAIN group.Tasks }

\* The watched job: its newest version, with no, one or two task groups.
StartedJobs ==
    { Put(j, "TaskGroups", tgs) :
        j \in JobsOf({mynomad_namespace}, {WatchedJobID}, {MaxIndex}, {1},
                     {MaxVersion}, {"running"}),
        tgs \in {<<>>, <<Group1>>, <<Group1, Group2>>} }

\* The allocations id of a group, every subset of its tasks started.
StartedAllocsOf(id, group, idxs, vers) ==
    { Put(Put([a EXCEPT !.ID = id], "TaskGroup", group.Name), "TaskStates",
          [t \in TaskNames(group) |->
                [Events |-> IF t \in st THEN {"Received", "Started"}
                            ELSE {"Received"}]]) :
        a \in AllocsOf({mynomad_namespace}, {WatchedJobID}, idxs, vers, FALSE,
                       {"e1"}, {"running"}),
        st \in SUBSET TaskNames(group) }

\* A dict with no or one entry, for every record of the set.
OptionalEntry(records) ==
    {EmptyMap} \cup { (r.ID :> r) : r \in records }

StartedEvals ==
    EvalsOf({mynomad_namespace}, {WatchedJobID}, {1}, {1}, FALSE, {"complete"})

\* The states of the Until-Started watcher once the cache is initialized,
\* finish_cb not yet called: the job is cached, with allocations a1 and a2
\* of the first group, a1 of any job version, and a3 of the second group.
StartedInit ==
    /\ job \in StartedJobs
    /\ db_job = job
    /\ evaluations \in OptionalEntry(StartedEvals)
    /\ allocations \in
        { a1 @@ a2 @@ a3 :
            a1 \in OptionalEntry(StartedAllocsOf("a1", Group1, Indexes, Versions)),
            a2 \in OptionalEntry(StartedAllocsOf("a2", Group1, Indexes, {MaxVersion})),
            a3 \in OptionalEntry(StartedAllocsOf("a3", Group2, {1}, {MaxVersion})) }
    /\ deployments = EmptyMap
    /\ initialized = TRUE
    /\ stopevent = FALSE
    /\ queue = <<>>
    /\ foundjob = FALSE
    /\ purged = FALSE
    /\ done = FALSE
    /\ timeup = FALSE
    /\ main_pc = "start"
    /\ db_pc = "start"
    /\ watch_pc = "loop"
    /\ last = NoLast
    /\ accepted = NoAccepted
    /\ args = NoArgs
    /\ server = None
    /\ ExitIdle

\* The stream delivers lines without events.
StartedNext ==
    \/ StartedThreadRunStream({<<>>})
    \/ SetDone
    \/ StartedRunAndExit

StartedSpec == StartedInit /\ [][StartedNext]_vars

----------------------------------------------------------------------------
(* Claims about job_is_started, checked under StartedSpec, where started   *)
(* is what job_is_started returned in a call of finish_cb.                 *)

CachedAllocs == { allocations[i] : i \in DOMAIN allocations }

\* The cached allocations of a group that pass the job version rule.
PassingAllocs(group) ==
    { a \in CachedAllocs :
        /\ a.TaskGroup = group.Name
        /\ \/ FieldOrMinus1(a, "JobVersion") >= job.Version
           \/ /\ a.EvalID \in DOMAIN evaluations
              /\ FieldOrMinus1(evaluations[a.EvalID], "JobModifyIndex")
                    >= job.JobModifyIndex }

\* Those of them that were modified most recently.
MostRecent(group) ==
    { a \in PassingAllocs(group) :
        \A b \in PassingAllocs(group) : b.ModifyIndex <= a.ModifyIndex }

HasStarted(a, name) == "Started" \in a.TaskStates[name].Events

\* A main task: no Lifecycle, a prestart hook with Sidecar true, or a
\* poststart hook.
IsMainTask(t) ==
    \/ "Lifecycle" \notin DOMAIN t
    \/ t.Lifecycle = None
    \/ t.Lifecycle.Hook = "prestart" /\ t.Lifecycle.Sidecar = TRUE
    \/ t.Lifecycle.Hook = "poststart"

MainTasksStarted(group, a) ==
    \A i \in DOMAIN group.Tasks :
        IsMainTask(group.Tasks[i]) => HasStarted(a, group.Tasks[i].Name)

\* C11: job_is_started returns true iff the job has at least one task group
\* and, for every task group, some cached allocation of the group passes
\* the job version rule and, in the most recently modified of those, every
\* main task has a Started event (when several share the greatest
\* ModifyIndex: true if it holds in all of them, false if in none).
C11_JobIsStarted ==
    last.fin # "none" =>
        /\ started =>
            /\ job.TaskGroups # <<>>
            /\ \A g \in DOMAIN job.TaskGroups :
                \E a \in MostRecent(job.TaskGroups[g]) :
                    MainTasksStarted(job.TaskGroups[g], a)
        /\ ( /\ job.TaskGroups # <<>>
             /\ \A g \in DOMAIN job.TaskGroups :
                    /\ MostRecent(job.TaskGroups[g]) # {}
                    /\ \A a \in MostRecent(job.TaskGroups[g]) :
                            MainTasksStarted(job.TaskGroups[g], a) )
           => started

\* job_is_started returned false although an older allocation of the only
\* group has all its main tasks started: the most recent one has not.
C11_Witness ==
    /\ last.fin = "false" /\ ~started
    /\ job.TaskGroups = <<Group1>>
    /\ \E a, b \in PassingAllocs(Group1) :
        /\ a.ModifyIndex < b.ModifyIndex
        /\ MainTasksStarted(Group1, a)
        /\ ~MainTasksStarted(Group1, b)

\* C12: a task is a main task iff it has no Lifecycle, or a prestart hook
\* with Sidecar true, or a poststart hook; for the group of m, prestart
\* sidecar s and prestart task p, with one most recent allocation,
\* job_is_started is true iff m and s have Started, whatever the state of
\* p (likewise n and q, whatever r, for the second group).
C12_MainTasks ==
    /\ \A g \in {Group1, Group2} :
            allmaintasks(g) =
                { g.Tasks[i].Name : i \in { k \in DOMAIN g.Tasks : IsMainTask(g.Tasks[k]) } }
    /\ ( /\ last.fin # "none"
         /\ job.TaskGroups # <<>>
         /\ \A g \in DOMAIN job.TaskGroups :
                Cardinality(MostRecent(job.TaskGroups[g])) = 1 )
       => ( started <=>
                \A g \in DOMAIN job.TaskGroups :
                    \A a \in MostRecent(job.TaskGroups[g]) :
                        \A name \in (IF job.TaskGroups[g].Name = "g1"
                                     THEN {"m", "s"} ELSE {"n", "q"}) :
                            HasStarted(a, name) )

\* job_is_started returned true for the group of m, s and p while p has not
\* started in the most recent allocation.
C12_Witness ==
    /\ last.fin = "true" /\ started
    /\ job.TaskGroups = <<Group1>>
    /\ \E a \in MostRecent(Group1) :
        /\ HasStarted(a, "m") /\ HasStarted(a, "s") /\ ~HasStarted(a, "p")

----------------------------------------------------------------------------
(* StartingSpec: the Until-Started watcher from its construction, under    *)
(* events of the watched job (running or dead, registered or              *)
(* deregistered), of its evaluation and of its one allocation, whose tasks *)
(* start in the order m, s, p.                                             *)

StartingJobs ==
    { Put(j, "TaskGroups", <<Group1>>) :
        j \in JobsOf({mynomad_namespace}, {WatchedJobID}, Indexes, {1}, {0},
                     JobStatuses) }

StartingWatched == { j \in StartingJobs : j.ModifyIndex = 1 }

StartingEvals ==
    EvalsOf({mynomad_namespace}, {WatchedJobID}, {1}, {1}, FALSE, EvalStatuses)

StartingAllocs ==
    { Put(Put(a, "TaskGroup", Group1.Name), "TaskStates",
          [t \in TaskNames(Group1) |->
                [Events |-> IF t \in st THEN {"Received", "Started"}
                            ELSE {"Received"}]]) :
        a \in AllocsOf({mynomad_namespace}, {WatchedJobID}, Indexes, {0}, FALSE,
                       {"e1"}, {"running", "complete"}),
        st \in {{}, {"m"}, {"m", "s"}, {"m", "s", "p"}} }

StartingEvents ==
    EventsOf("Job", BothTypes("Job"), StartingJobs)
    \cup EventsOf("Evaluation", {"EvaluationUpdated"}, StartingEvals)
    \cup EventsOf("Allocation", {"AllocationUpdated"}, StartingAllocs)

StartingInitBatches ==
    InitBatchesOf(StartingJobs, StartingEvals, StartingAllocs, {})

StartingStreamBatches == StreamBatchesOf(StartingEvents)

StartingInit ==
    /\ WatcherInit(StartingWatched)
    /\ args = NoArgs
    /\ server = None
    /\ ExitIdle

StartingNext ==
    \/ StartedThreadRunInit(StartingInitBatches)
    \/ StartedThreadRunStream(StartingStreamBatches)
    \/ SetDone
    \/ StartedRunAndExit

StartingSpec == StartingInit /\ [][StartingNext]_vars

----------------------------------------------------------------------------
(* Claim about the exit of the Until-Started watcher, under StartingSpec.  *)

\* The rule of job_is_started read on the cache of the current state.
JobStartedNow ==
    /\ job.TaskGroups # <<>>
    /\ \A g \in DOMAIN job.TaskGroups :
        \E a \in MostRecent(job.TaskGroups[g]) :
            MainTasksStarted(job.TaskGroups[g], a)

\* C13: in Until-Started mode, when finish_cb is evaluated while the job is
\* dead with no active work and job_is_started is false, finish_cb is true
\* (done is set next) and the exit code is interrupted (2); the exit code is
\* success (0) iff job_is_started returned true in an evaluation made
\* before done was set; started never reverts to false and does not change
\* once done is set.
C13_UntilStartedExit ==
    /\ []( (last.fin # "none" /\ is_dead(job) /\ NoActiveWork /\ ~JobStartedNow)
            => (last.fin = "true" /\ ~started /\ (watch_pc = "set_done" \/ done)) )
    /\ []( exitstatus # <<>> =>
            /\ done
            /\ exitstatus = <<IF started THEN ExitCode.success
                              ELSE ExitCode.interrupted>> )
    /\ []( ExitCode.success = 0 /\ ExitCode.interrupted = 2 )
    /\ [][ started => started' ]_vars
    /\ [][ done => started' = started ]_vars
    /\ [][ (~started /\ started') =>
            (~done /\ last'.fin = "true" /\ JobStartedNow') ]_vars

\* The program exited with code interrupted: the job was dead with no
\* active work and never started.
C13_Witness ==
    /\ exitstatus = <<ExitCode.interrupted>>
    /\ last.fin = "true"
    /\ is_dead(job) /\ NoActiveWork /\ ~JobStartedNow
    /\ allocations # EmptyMap

----------------------------------------------------------------------------
(* class TaskHandler, the whole handler: its fields are loggers (<<>> for   *)
(* None, <<list>> for a list of Logger threads), messages (the set of Time *)
(* values logged), exitcode and stoptimer ("none" for None, then the state *)
(* of the Timer: pending, fired, cancelled).  A task state snapshot is     *)
(* [State, Events],                                                        *)
(* an event [Type, Time] with an ExitCode when its Type is Terminated.     *)
(* args.lines is the tail option and args.log_alloc tells whether          *)
(* logformat.alloc is set.                                                 *)

\* START_NS: the time the program started at
START_NS == 2

TaskHandler ==
    [loggers |-> <<>>, messages |-> {}, exitcode |-> <<>>, stoptimer |-> "none"]

\* A Logger thread as its TaskHandler sees it: its stream and its exitevent.
Logger(stderr) == [stderr |-> stderr, exitevent |-> FALSE]

\* _create_loggers that starts a logger for each stream, enabled or not
create_loggers_all_streams(a) == <<Logger(FALSE), Logger(TRUE)>>

\* TaskHandler._create_loggers: one Logger for stdout and one for stderr,
\* each if its format is set.
create_loggers(a) ==
    (IF a.stdout THEN <<Logger(FALSE)>> ELSE <<>>)
    \o (IF a.stderr THEN <<Logger(TRUE)>> ELSE <<>>)

\* The stop timer starts at any notify with a dead task and loggers
notify_stoptimer_rearmed(th, loggers, taskstate) ==
    IF /\ loggers # <<>> /\ loggers[1] # <<>>
       /\ taskstate.State = "dead"
    THEN "pending" ELSE th.stoptimer

\* TaskHandler.notify, the stop timer after the call: loggers is
\* self.loggers at that point (<<>> for None, <<list>> for a list; an empty
\* list is falsy).
notify_stoptimer(th, loggers, taskstate) ==
    IF /\ th.stoptimer = "none"
       /\ loggers # <<>> /\ loggers[1] # <<>>
       /\ taskstate.State = "dead"
    THEN "pending" ELSE th.stoptimer

\* nomadlib: AllocTaskState.find_event(type): the first event of the type,
\* as a sequence of no or one event.
find_event(taskstate, type) ==
    IF \E i \in DOMAIN taskstate.Events : taskstate.Events[i].Type = type
    THEN <<taskstate.Events[
            CHOOSE i \in DOMAIN taskstate.Events :
                /\ taskstate.Events[i].Type = type
                /\ \A k \in 1..(i - 1) : taskstate.Events[k].Type # type]>>
    ELSE <<>>

\* nomadlib: AllocTaskState.was_started() of a snapshot
snapshot_was_started(taskstate) ==
    \E i \in DOMAIN taskstate.Events : taskstate.Events[i].Type = "Started"

\* set_not_in_add(s, value): the value returned; the set becomes
\* s \cup {value}.
set_not_in_add(s, value) == value \notin s

\* The condition of notify without the set of the messages printed
alloc_event_selected_no_set(lines, messages, msgtime_ns) ==
    /\ msgtime_ns # 0
    /\ \/ lines < 0
       \/ msgtime_ns >= START_NS
       \/ Cardinality(messages) < lines

\* The condition of notify that counts the events after the start as well
alloc_event_selected_capped(lines, messages, msgtime_ns) ==
    /\ msgtime_ns # 0
    /\ \/ lines < 0
       \/ Cardinality(messages) < lines
    /\ set_not_in_add(messages, msgtime_ns)

\* TaskHandler.notify: the condition under which an event is logged (a
\* Time of 0 or None is falsy).
alloc_event_selected(lines, messages, msgtime_ns) ==
    /\ msgtime_ns # 0
    /\ \/ lines < 0
       \/ msgtime_ns >= START_NS
       \/ Cardinality(messages) < lines
    /\ set_not_in_add(messages, msgtime_ns)

\* TaskHandler.notify, the loop over the events: messages after the loop
\* and the Time of the events logged, in order.
RECURSIVE notify_events(_, _, _, _)
notify_events(lines, messages, out, events) ==
    IF events = <<>> THEN [messages |-> messages, out |-> out]
    ELSE IF alloc_event_selected(lines, messages, Head(events).Time)
         THEN notify_events(lines, messages \cup {Head(events).Time},
                            Append(out, Head(events).Time), Tail(events))
         ELSE notify_events(lines, messages, out, Tail(events))

\* TaskHandler.notify, the exit code after the call
notify_exitcode(th, taskstate) ==
    IF /\ th.exitcode = <<>>
       /\ taskstate.State = "dead"
       /\ find_event(taskstate, "Terminated") # <<>>
    THEN <<find_event(taskstate, "Terminated")[1].ExitCode>>
    ELSE th.exitcode

\* TaskHandler.notify: the handler after the call and the Time of the
\* events it logged.
notify(a, th, taskstate) ==
    LET r == IF a.log_alloc
             THEN notify_events(a.lines, th.messages, <<>>, taskstate.Events)
             ELSE [messages |-> th.messages, out |-> <<>>]
        loggers == IF /\ th.loggers = <<>>
                      /\ taskstate.State \in {"running", "dead"}
                      /\ snapshot_was_started(taskstate)
                   THEN <<create_loggers(a)>> ELSE th.loggers
    IN  [th |-> [loggers |-> loggers,
                 messages |-> r.messages,
                 exitcode |-> notify_exitcode(th, taskstate),
                 stoptimer |-> notify_stoptimer(th, loggers, taskstate)],
         out |-> r.out]

\* What a snapshot adds to the observation.
Observed(obs, taskstate) ==
    [state |-> taskstate.State,
     times |-> obs.times
               \cup { taskstate.Events[i].Time : i \in DOMAIN taskstate.Events },
     again |-> obs.again
               \cup { taskstate.Events[i].Time :
                        i \in { k \in DOMAIN taskstate.Events :
                                  \/ taskstate.Events[k].Time \in obs.times
                                  \/ \E j \in 1..(k - 1) :
                                        taskstate.Events[j].Time
                                            = taskstate.Events[k].Time } },
     terminated |-> obs.terminated
               \cup { taskstate.Events[i].ExitCode :
                        i \in { k \in DOMAIN taskstate.Events :
                                  taskstate.Events[k].Type = "Terminated" } },
     started |-> \/ obs.started
                 \/ /\ taskstate.State \in {"running", "dead"}
                    /\ snapshot_was_started(taskstate),
     dead |-> \/ obs.dead
              \/ /\ taskstate.State = "dead"
                 /\ obs.started \/ snapshot_was_started(taskstate)]

\* AllocWorker.notify for the one task of an allocation: setdefault creates
\* the handler at the first snapshot, then the handler is notified.  A task
\* that is dead stays dead.
NotifySnapshot(taskstates) ==
    /\ exitstatus = <<>>
    /\ \E taskstate \in taskstates :
        /\ observed.state = "dead" => taskstate.State = "dead"
        /\ \E r \in {notify(args, IF taskhandlers = <<>> THEN TaskHandler
                                  ELSE taskhandlers[1], taskstate)} :
            /\ taskhandlers' = <<r.th>>
            /\ logged' = logged \o r.out
        /\ observed' = Observed(observed, taskstate)
    /\ UNCHANGED <<dbvars, initialized, stopevent, queue, job, foundjob,
                   purged, done, args, timeup, main_pc, db_pc, watch_pc,
                   server, last, accepted, exitstatus, started, produced,
                   yielded,
                   locals>>

\* The sequences of at most n elements of a set
RECURSIVE SeqsUpTo(_, _)
SeqsUpTo(S, n) ==
    IF n = 0 THEN {<<>>}
    ELSE SeqsUpTo(S, n - 1)
         \cup { Append(q, x) : q \in { p \in SeqsUpTo(S, n - 1) : Len(p) = n - 1 },
                               x \in S }

TaskArgs(lines, log_alloc) ==
    [all |-> FALSE, polling |-> FALSE, no_follow |-> FALSE, lines |-> lines,
     log_alloc |-> log_alloc, stdout |-> TRUE, stderr |-> TRUE]

----------------------------------------------------------------------------
(* TerminatedSpec: one task handler under snapshots in every task state,   *)
(* whose events are a Started event or a Terminated event with an exit     *)
(* code, all of one Time; the program then takes its exit status from      *)
(* AllocWorkers.exitcode().                                                *)

TermEvents ==
    {[Type |-> "Started", Time |-> START_NS]}
    \cup { [Type |-> "Terminated", Time |-> START_NS, ExitCode |-> c] :
            c \in {0, 3} }

TermTaskStates ==
    { [State |-> st, Events |-> ev] :
        st \in {"pending", "running", "dead"},
        ev \in SeqsUpTo(TermEvents, MaxEvents) }

TerminatedInit ==
    /\ WatcherInit(CacheWatched)
    /\ args \in { TaskArgs(-1, b) : b \in BOOLEAN }
    /\ server = None
    /\ ExitIdle

TerminatedNext ==
    \/ NotifySnapshot(TermTaskStates)
    \/ GetExitcode

TerminatedSpec == TerminatedInit /\ [][TerminatedNext]_vars

\* C14: if some snapshot delivered to a task handler contained a Terminated
\* event with ExitCode e (and no snapshot one with another exit code) and
\* the last snapshot has the state dead, the exitcode of the handler is e
\* and the task contributes e to the aggregate exit code.
C14_NoLostExitCode ==
    \A e \in observed.terminated :
        (observed.state = "dead" /\ observed.terminated = {e})
            => /\ taskhandlers[1].exitcode = <<e>>
               /\ exitcodes_of(taskhandlers) = <<e>>
               /\ exitstatus # <<>> => exitstatus = <<e>>

----------------------------------------------------------------------------
(* TailSpec: one task handler with the allocation stream enabled, for      *)
(* every value of args.lines, under snapshots of a running task whose      *)
(* events have a Time of 0 (no Time), before START_NS or from START_NS on. *)

TailEvents == { [Type |-> "Started", Time |-> t] : t \in 0..MaxTime }

TailTaskStates ==
    { [State |-> "running", Events |-> ev] :
        ev \in SeqsUpTo(TailEvents, MaxEvents) }

TailInit ==
    /\ WatcherInit(CacheWatched)
    /\ args \in { TaskArgs(n, TRUE) : n \in -1..MaxLines }
    /\ server = None
    /\ ExitIdle

TailNext == NotifySnapshot(TailTaskStates)

TailSpec == TailInit /\ [][TailNext]_vars

\* The Time values logged, and no Time logged twice.
LoggedTimes == { logged[i] : i \in DOMAIN logged }

NoTimeLoggedTwice ==
    \A i, k \in DOMAIN logged : logged[i] = logged[k] => i = k

\* C15 as stated: with lines < 0 the allocation events logged are exactly
\* one per distinct Time occurring in the snapshots.
C15_OnePerTime ==
    args.lines < 0 =>
        /\ NoTimeLoggedTwice
        /\ LoggedTimes = observed.times

\* C15 amended: with lines < 0 the allocation events logged are exactly one
\* per distinct Time other than 0 occurring in the snapshots; an event whose
\* Time is 0 is never logged.
C15_OnePerNonzeroTime ==
    args.lines < 0 =>
        /\ NoTimeLoggedTwice
        /\ LoggedTimes = observed.times \ {0}

\* With lines < 0 a Time that occurred more than once was logged once, and
\* an event without Time occurred.
C15_Witness ==
    /\ args.lines < 0
    /\ 0 \in observed.times
    /\ \E t \in observed.again :
        t # 0 /\ Cardinality({ i \in DOMAIN logged : logged[i] = t }) = 1

\* C16 as stated: in tail mode no event with a Time before the start is
\* logged and the number of events logged never exceeds lines.
C16_TailSuppressesAndCaps ==
    args.lines >= 0 =>
        /\ \A i \in DOMAIN logged : logged[i] >= START_NS
        /\ Len(logged) <= args.lines

\* C16 amended: in tail mode an event with a Time before the start is logged
\* only while fewer than lines events have been logged by the handler, so
\* at most lines of them are; every Time from the start on that occurred is
\* logged, once, whatever lines.
C16_TailCapsOldEvents ==
    args.lines >= 0 =>
        /\ \A i \in DOMAIN logged : logged[i] < START_NS => i <= args.lines
        /\ NoTimeLoggedTwice
        /\ \A t \in observed.times : t >= START_NS => t \in LoggedTimes
        /\ 0 \notin LoggedTimes

\* In tail mode an event older than the start was logged and more than
\* lines events were logged.
C16_Witness ==
    /\ args.lines >= 1
    /\ Len(logged) > args.lines
    /\ \E i \in DOMAIN logged : logged[i] < START_NS

----------------------------------------------------------------------------
(* The threads of a NomadJobWatcherUntilFinished, step by step: the Db     *)
(* thread (_thread_entry), the watcher thread (thread_run iterating over   *)
(* Db.events()) and the main thread (stop_job, wait, stop, exit).          *)
(* db_pc is start, stream, poll, finally or exited; watch_pc is init,      *)
(* init_set_done, init_resume (the generator is resumed after its first    *)
(* yield), loop (the condition of the while), get (blocked in queue.get),  *)
(* set_done, exited or crashed (an exception ended the thread); main_pc is *)
(* start, stopped (stop_job returned), stopping (stop() returned) or       *)
(* exited.  produced lists the items put in the queue, yielded the batches *)
(* yielded: where the batch came from (src), the batch (raw), what         *)
(* handle_events returned for it (out), the number of items taken from the *)
(* queue so far (taken) and the initialized flag then.                     *)

\* queue.get() that takes the item put last
queue_get_lifo(q) == [item |-> q[Len(q)], rest |-> Front(q)]

\* queue.get(): the item taken and the queue left
queue_get(q) == [item |-> Head(q), rest |-> Tail(q)]

\* The threads are daemon threads: they run until the program exits.
process_alive == main_pc # "exited"

\* threading.Thread.is_alive() of the Db thread
thread_is_alive == db_pc # "exited"

\* _thread_entry: with args.polling the thread polls; without, it reads the
\* stream, or the stream API answers PermissionDenied and the thread falls
\* back to _thread_poll ("fallback" is _thread_poll called from the except
\* clause).
thread_entry_denied_ends(polling) ==
    IF polling THEN {"poll"} ELSE {"stream", "finally"}

thread_entry(polling) ==
    IF polling THEN {"poll"} ELSE {"stream", "fallback"}

DbStart ==
    /\ process_alive
    /\ db_pc = "start"
    /\ db_pc' \in thread_entry(args.polling)
    /\ UNCHANGED <<dbvars, initialized, stopevent, queue, job, foundjob,
                   purged, done, args, timeup, main_pc, watch_pc, server, last,
                   accepted, exitvars, othervars>>

\* _thread_run_stream that applies the events of a line to the cache
DbStreamLine_applies(batches) ==
    /\ process_alive
    /\ db_pc = "stream"
    /\ \E line \in {None} \cup { QueueItem(b) : b \in
                        IF server.outbox # <<>> THEN {Head(server.outbox)}
                        ELSE batches } :
        /\ line # None => Len(produced) < MaxProduced
        /\ queue' = IF line # None THEN Append(queue, line) ELSE queue
        /\ produced' = IF line # None THEN Append(produced, line) ELSE produced
        /\ server' = IF line # None /\ server.outbox # <<>>
                     THEN [server EXCEPT !.outbox = Tail(@)] ELSE server
        /\ \E r \in {IF line # None
                      THEN handle_events(args.all, job, DB, line.events).db
                      ELSE DB} :
            /\ db_job' = r.job
            /\ evaluations' = r.evaluations
            /\ allocations' = r.allocations
            /\ deployments' = r.deployments
    /\ db_pc' = IF stopevent THEN "finally" ELSE "stream"
    /\ UNCHANGED <<initialized, stopevent, job, foundjob, purged, done,
                   args, timeup, main_pc, watch_pc, last, accepted, exitvars,
                   started, logged, observed, yielded,
                   locals>>

\* _thread_run_stream: one turn of the loop over the lines of the stream.
\* The line is empty (None), or it carries the batch the scheduler has to
\* send, or any batch of the universe; a non-empty line is put in the
\* queue, then stopevent is read.
DbStreamLine(batches) ==
    /\ process_alive
    /\ db_pc = "stream"
    /\ \E line \in {None} \cup { QueueItem(b) : b \in
                        IF server.outbox # <<>> THEN {Head(server.outbox)}
                        ELSE batches } :
        /\ line # None => Len(produced) < MaxProduced
        /\ queue' = IF line # None THEN Append(queue, line) ELSE queue
        /\ produced' = IF line # None THEN Append(produced, line) ELSE produced
        /\ server' = IF line # None /\ server.outbox # <<>>
                     THEN [server EXCEPT !.outbox = Tail(@)] ELSE server
    /\ db_pc' = IF stopevent THEN "finally" ELSE "stream"
    /\ UNCHANGED <<dbvars, initialized, stopevent, job, foundjob, purged, done,
                   args, timeup, main_pc, watch_pc, last, accepted, exitvars,
                   started, logged, observed, yielded,
                   locals>>

\* _thread_run_stream: the stream reaches its end.
DbStreamEOF ==
    /\ process_alive
    /\ db_pc = "stream"
    /\ db_pc' = "finally"
    /\ UNCHANGED <<dbvars, initialized, stopevent, queue, job, foundjob,
                   purged, done, args, timeup, main_pc, watch_pc, server, last,
                   accepted, exitvars, othervars>>

\* _thread_poll: initialized.wait(), then one turn of the loop: stopevent
\* ends it, else init_cb() is put in the queue; JobNotFound raised by
\* init_cb ends the thread.
DbPoll ==
    /\ process_alive
    /\ db_pc \in {"poll", "fallback"}
    /\ initialized
    /\ IF stopevent
       THEN db_pc' = "finally" /\ UNCHANGED <<queue, produced>>
       ELSE \E item \in {UntilFinished_db_init_cb(server, job, purged)} :
            IF item = None
            THEN db_pc' = "finally" /\ UNCHANGED <<queue, produced>>
            ELSE /\ Len(produced) < MaxProduced
                 /\ queue' = Append(queue, item)
                 /\ produced' = Append(produced, item)
                 /\ db_pc' = db_pc
    /\ UNCHANGED <<dbvars, initialized, stopevent, job, foundjob, purged, done,
                   args, timeup, main_pc, watch_pc, server, last, accepted,
                   exitvars, started, logged, observed, yielded,
                   locals>>

\* _thread_entry, finally: queue.put(None), and the thread ends.
DbFinally ==
    /\ process_alive
    /\ db_pc = "finally"
    /\ queue' = Append(queue, None)
    /\ produced' = Append(produced, None)
    /\ db_pc' = "exited"
    /\ UNCHANGED <<dbvars, initialized, stopevent, job, foundjob, purged, done,
                   args, timeup, main_pc, watch_pc, server, last, accepted,
                   exitvars, started, logged, observed, yielded,
                   locals>>

\* thread_run: the body of the loop for a batch Db.events() yields, the
\* watcher thread going to pc_done when done has to be set and to pc_next
\* when not.
EventsBody(src, taken, events, pc_done, pc_next) ==
    \E r \in {handle_events(args.all, job, DB, events)} :
    \E w \in {follow_job(job, r.db, r.out)} :
    \E evaluated \in {~done /\ ~args.all} :
    \E f \in {finish_cb(w, r.db, foundjob, purged)} :
        /\ db_job' = r.db.job
        /\ evaluations' = r.db.evaluations
        /\ allocations' = r.db.allocations
        /\ deployments' = r.db.deployments
        /\ job' = w
        /\ foundjob' = IF evaluated THEN f.foundjob ELSE foundjob
        /\ watch_pc' = IF (evaluated /\ f.ret) \/ (args.no_follow /\ timeup)
                       THEN pc_done ELSE pc_next
        /\ last' = Observe("finish", args.all, job, DB, events, evaluated, f,
                           purged, r.db.job # None)
        /\ yielded' = Append(yielded, [src |-> src, raw |-> events,
                                       out |-> r.out,
                                       taken |-> taken,
                                       initialized |-> initialized])

\* Db.events() up to its first yield: the Db thread has to be alive, and
\* init_cb() is called when initialized is not set; the AssertionError, or
\* JobNotFound raised by init_cb(), ends the watcher thread.
EventsFirst ==
    /\ process_alive
    /\ watch_pc = "init"
    /\ IF ~thread_is_alive
       THEN /\ watch_pc' = "crashed"
            /\ UNCHANGED <<dbvars, job, foundjob, last, yielded>>
       ELSE IF initialized
       THEN /\ watch_pc' = "loop"
            /\ UNCHANGED <<dbvars, job, foundjob, last, yielded>>
       ELSE \E item \in {UntilFinished_db_init_cb(server, job, purged)} :
            IF item = None
            THEN /\ watch_pc' = "crashed"
                 /\ UNCHANGED <<dbvars, job, foundjob, last, yielded>>
            ELSE EventsBody("init", Len(produced) - Len(queue), item.events,
                            "init_set_done", "init_resume")
    /\ UNCHANGED <<initialized, stopevent, queue, purged, done, args, timeup,
                   main_pc, db_pc, server, accepted, exitvars, started, logged,
                   produced, observed,
                   locals>>

\* thread_run: self.done.set() in the body run for the first yield
InitSetDone ==
    /\ process_alive
    /\ watch_pc = "init_set_done"
    /\ done' = TRUE
    /\ watch_pc' = "init_resume"
    /\ UNCHANGED <<dbvars, initialized, stopevent, queue, job, foundjob, purged,
                   args, timeup, main_pc, db_pc, server, last, accepted,
                   exitvars, othervars>>

\* Db.events() resumed after its first yield: self.initialized.set()
EventsResume ==
    /\ process_alive
    /\ watch_pc = "init_resume"
    /\ initialized' = TRUE
    /\ watch_pc' = "loop"
    /\ UNCHANGED <<dbvars, stopevent, queue, job, foundjob, purged, done, args,
                   timeup, main_pc, db_pc, server, last, accepted, exitvars,
                   othervars>>

\* Db.events(): the condition of the while loop
EventsWhile ==
    /\ process_alive
    /\ watch_pc = "loop"
    /\ watch_pc' = IF queue # <<>> \/ (thread_is_alive /\ ~stopevent)
                   THEN "get" ELSE "exited"
    /\ UNCHANGED <<dbvars, initialized, stopevent, queue, job, foundjob, purged,
                   done, args, timeup, main_pc, db_pc, server, last, accepted,
                   exitvars, othervars>>

\* Db.events(): queue.get() returns; None ends the generator and thread_run
\* with it, a batch is handled and yielded.
EventsGet ==
    /\ process_alive
    /\ watch_pc = "get"
    /\ queue # <<>>
    /\ \E g \in {queue_get(queue)} :
        /\ queue' = g.rest
        /\ IF g.item = None
           THEN /\ watch_pc' = "exited"
                /\ UNCHANGED <<dbvars, job, foundjob, last, yielded>>
           ELSE EventsBody("queue", Len(produced) - Len(g.rest), g.item.events,
                           "set_done", "loop")
    /\ UNCHANGED <<initialized, stopevent, purged, done, args, timeup, main_pc,
                   db_pc, server, accepted, exitvars, started, logged,
                   produced, observed,
                   locals>>

\* Db.stop(): the flags [initialized, stopevent] after the call
Db_stop(flags) == [flags EXCEPT !.initialized = TRUE, !.stopevent = TRUE]

\* thread_run: self.done.set() in the body run for a batch of the queue
EventsSetDone ==
    /\ process_alive
    /\ SetDone

\* stop() called without wait() having returned
WaitAndStop_no_wait ==
    /\ main_pc \in {"start", "stopped"}
    /\ \E flags \in {Db_stop([initialized |-> initialized,
                                stopevent |-> stopevent])} :
        /\ initialized' = flags.initialized
        /\ stopevent' = flags.stopevent
    /\ main_pc' = "stopping"
    /\ UNCHANGED <<dbvars, queue, job, foundjob, purged, done, args, timeup,
                   db_pc, watch_pc, server, last, accepted, exitvars,
                   othervars>>

\* NomadJobWatcher.wait() returns and stop() is called (run_and_exit,
\* mode_run).
WaitAndStop ==
    /\ main_pc \in {"start", "stopped"}
    /\ done
    /\ \E flags \in {Db_stop([initialized |-> initialized,
                                stopevent |-> stopevent])} :
        /\ initialized' = flags.initialized
        /\ stopevent' = flags.stopevent
    /\ main_pc' = "stopping"
    /\ UNCHANGED <<dbvars, queue, job, foundjob, purged, done, args, timeup,
                   db_pc, watch_pc, server, last, accepted, exitvars,
                   othervars>>

\* NomadJobWatcherUntilFinished._get_exitcode
UntilFinished_get_exitcode(a, d, ths) ==
    IF a.no_preserve_status
    THEN IF d THEN ExitCode.success ELSE ExitCode.interrupted
    ELSE exitcode(ths)

\* exit(self.get_exitcode()): get_exitcode asserts that stop() was called
\* and that done is set, and the program ends with the exit code of the
\* watcher.
Exit ==
    /\ main_pc = "stopping"
    /\ stopevent /\ done
    /\ exitstatus' = <<UntilFinished_get_exitcode(args, done, taskhandlers)>>
    /\ main_pc' = "exited"
    /\ UNCHANGED <<dbvars, initialized, stopevent, queue, job, foundjob,
                   purged, done, args, timeup, db_pc, watch_pc, server, last,
                   accepted, taskhandlers, othervars>>

\* The steps of the Db thread and of the watcher thread, the lines of the
\* stream carrying the batches given.
ThreadSteps(batches) ==
    \/ DbStart
    \/ DbStreamLine(batches)
    \/ DbStreamEOF
    \/ DbPoll
    \/ DbFinally
    \/ EventsFirst
    \/ InitSetDone
    \/ EventsResume
    \/ EventsWhile
    \/ EventsGet
    \/ EventsSetDone

\* The steps of the main thread (mode_job, mode_stop_in) and the scheduler
\* serving its purge request.
MainSteps ==
    \/ \E purge \in BOOLEAN : StopJob(purge)
    \/ NomadPurgeJob
    \/ WaitAndStop
    \/ Exit

\* The watcher is built for a job found on the scheduler; the job is still
\* there when init_cb() asks for it, or it has been removed meanwhile.
ThreadsInit ==
    /\ WatcherInit(PurgeJobs)
    /\ args \in { [NoArgs EXCEPT !.polling = polling] : polling \in BOOLEAN }
    /\ server \in { [job |-> j, allocations |-> {}, outbox |-> <<>>] :
                        j \in {job, None} }
    /\ ExitIdle

----------------------------------------------------------------------------
(* QueueSpec: the threads under a stream whose lines carry no event, one   *)
(* Job event of the watched job, or two of them, the stale one last.  The  *)
(* job is running, or dead at its last ModifyIndex.                        *)

QueueJobEvents ==
    EventsOf("Job", {"JobRegistered"},
             { j \in JobsOf({mynomad_namespace}, {WatchedJobID}, Indexes, {1},
                            {0}, JobStatuses) :
                    j.Status = "dead" => j.ModifyIndex = MaxIndex })

QueueBatches ==
    { b \in SeqsUpTo(QueueJobEvents, 2) :
        Len(b) = 2 => b[1].data.ModifyIndex > b[2].data.ModifyIndex }

QueueNext == ThreadSteps(QueueBatches) \/ MainSteps

QueueSpec == ThreadsInit /\ [][QueueNext]_vars

\* q is p without some of its elements, the others in their order.
RECURSIVE IsSubSeq(_, _)
IsSubSeq(q, p) ==
    IF q = <<>> THEN TRUE
    ELSE IF p = <<>> THEN FALSE
    ELSE IF Head(q) = Head(p) THEN IsSubSeq(Tail(q), Tail(p))
    ELSE IsSubSeq(q, Tail(p))

----------------------------------------------------------------------------
(* ThreadsSpec: the threads with their scheduling.  A thread that can take *)
(* a step takes it, the scheduler serves the purge it was asked for, and   *)
(* wait() returns once done is set.  Nothing tells that the stream sends   *)
(* another line or ends (DbStreamLine, DbStreamEOF), that the main thread  *)
(* calls stop_job, or when the caller of stop() goes on to exit.  The      *)
(* lines of the stream carry no event or the Job event of the dead job.    *)

ThreadsBatches ==
    {<<>>}
    \cup { <<e>> : e \in
            EventsOf("Job", {"JobRegistered"},
                     JobsOf({mynomad_namespace}, {WatchedJobID}, {MaxIndex},
                            {1}, {0}, {"dead"})) }

ThreadsNext == ThreadSteps(ThreadsBatches) \/ MainSteps

ThreadsSpec ==
    /\ ThreadsInit
    /\ [][ThreadsNext]_vars
    /\ WF_vars(DbStart)
    /\ WF_vars(DbPoll)
    /\ WF_vars(DbFinally)
    /\ WF_vars(EventsFirst)
    /\ WF_vars(InitSetDone)
    /\ WF_vars(EventsResume)
    /\ WF_vars(EventsWhile)
    /\ WF_vars(EventsGet)
    /\ WF_vars(EventsSetDone)
    /\ WF_vars(NomadPurgeJob)
    /\ WF_vars(WaitAndStop)

\* Both threads have ended.
ThreadsEnded ==
    /\ watch_pc \in {"exited", "crashed"}
    /\ db_pc = "exited"

WaitReturned == main_pc \in {"stopping", "exited"}

\* C19: once the Db thread has ended (the stream reached its end, or
\* anything else ended it) while the watcher is consuming Db.events(), the
\* sentinel is the last item put in the queue, Db.events() terminates (as
\* long as the program runs) and the caller blocked in wait() returns.
C19_EndOfStreamReturns ==
    (db_pc = "exited" /\ yielded # <<>>) ~>
        ( /\ produced # <<>> /\ produced[Len(produced)] = None
          /\ watch_pc = "exited" \/ ~process_alive
          /\ WaitReturned )

\* C20: when init_cb() raises JobNotFound in Db.events() while no purge was
\* requested, the caller of wait() or of stop_job is not left blocked: the
\* main thread leaves its wait.
C20_InitFailureSurfaced ==
    (watch_pc = "crashed" /\ ~purged) ~> (main_pc # "start")

(***************************************************************************)
(* The fallback to polling (Db._thread_entry, Db._thread_poll).            *)
(***************************************************************************)

\* The batch a tick of _thread_poll puts in the queue: what init_cb returns.
PolledItem == UntilFinished_db_init_cb(server, job, purged)

\* The Db thread put something in the queue in this step.
DbPut == produced' # produced

\* The switch: from the start the Db thread goes on reading or polling, and
\* puts nothing in the queue; no sentinel is in the queue while it polls.
FallbackKeepsRunning ==
    /\ [][db_pc = "start" /\ db_pc' # db_pc =>
            /\ db_pc' \in {"stream", "poll", "fallback"}
            /\ ~DbPut]_vars
    /\ [](db_pc = "fallback" =>
            \A i \in DOMAIN produced : produced[i] # None)

\* A tick of the fallback runs once initialized is set and puts the whole
\* init() snapshot in the queue.
FallbackTicks ==
    [][db_pc = "fallback" /\ DbPut =>
            /\ initialized
            /\ PolledItem # None
            /\ produced' = Append(produced, PolledItem)
            /\ queue' = Append(queue, PolledItem)
            /\ db_pc' = "fallback"]_vars

----------------------------------------------------------------------------
(* BatchSpec: NomadJobWatcher.thread_run and Db.events() statement by      *)
(* statement.  A batch is taken, Db.handle_events applies its events to    *)
(* the cache one by one and returns the list of those accepted, the        *)
(* generator yields the list, the for loop of thread_run handles its       *)
(* events one by one, then the if statement evaluates the finish           *)
(* condition.  locals holds the batch, the cache and self.job as they were *)
(* when the batch was taken, and the two loop cursors.                     *)

\* Db.handle_events returns a list comprehension: the number of events of
\* the batch that handle_event has processed when the list is returned.
handle_events_lazy(events) == 0

handle_events_applied(events) == Len(events)

\* Db.events(): a batch is taken (init_cb() first, the queue afterwards).
BatchTake(initbatches, batches) ==
    /\ watch_pc \in {"init", "loop"}
    /\ \E events \in IF watch_pc = "init" THEN initbatches ELSE batches :
        locals' = [fn |-> "thread_run", raw |-> events, db |-> DB,
                   w |-> job, applied |-> 0, out |-> <<>>, handled |-> 0,
                   finish_calls |-> 0]
    /\ initialized' = (watch_pc = "loop")
    /\ watch_pc' = "handle_events"
    /\ UNCHANGED <<dbvars, stopevent, queue, job, foundjob, purged, done, args,
                   timeup, main_pc, db_pc, server, last, accepted, exitvars,
                   started, logged, produced, observed, yielded>>

\* Db.handle_events: handle_event for the next event of the batch.
BatchApply ==
    /\ watch_pc = "handle_events"
    /\ locals.applied < handle_events_applied(locals.raw)
    /\ \E e \in {locals.raw[locals.applied + 1]} :
       \E r \in {handle_event(args.all, job, DB, e)} :
        /\ db_job' = r.db.job
        /\ evaluations' = r.db.evaluations
        /\ allocations' = r.db.allocations
        /\ deployments' = r.db.deployments
        /\ locals' = [locals EXCEPT
                        !.applied = @ + 1,
                        !.out = IF r.ret THEN Append(@, e) ELSE @]
    /\ UNCHANGED <<initialized, stopevent, queue, job, foundjob, purged, done,
                   args, timeup, main_pc, db_pc, watch_pc, server, last,
                   accepted, exitvars, started, logged, produced, observed,
                   yielded>>

\* Db.events(): yield self.handle_events(...), the for loop of thread_run
\* starts.
BatchYield ==
    /\ watch_pc = "handle_events"
    /\ locals.applied >= handle_events_applied(locals.raw)
    /\ watch_pc' = "for"
    /\ UNCHANGED <<dbvars, initialized, stopevent, queue, job, foundjob,
                   purged, done, args, timeup, main_pc, db_pc, server, last,
                   accepted, exitvars, othervars>>

\* thread_run, for event in events: self.job follows the cache on a Job
\* event.
BatchHandle ==
    /\ watch_pc = "for"
    /\ locals.handled < Len(locals.out)
    /\ job' = follow_job(job, DB, <<locals.out[locals.handled + 1]>>)
    /\ locals' = [locals EXCEPT !.handled = @ + 1]
    /\ UNCHANGED <<dbvars, initialized, stopevent, queue, foundjob, purged,
                   done, args, timeup, main_pc, db_pc, watch_pc, server, last,
                   accepted, exitvars, started, logged, produced, observed,
                   yielded>>

\* thread_run, the if statement after the for loop.
BatchIf ==
    /\ watch_pc = "for"
    /\ locals.handled = Len(locals.out)
    /\ \E evaluated \in {~done /\ ~args.all} :
       \E f \in {finish_cb(job, DB, foundjob, purged)} :
        /\ foundjob' = IF evaluated THEN f.foundjob ELSE foundjob
        /\ locals' = [locals EXCEPT
                        !.finish_calls = IF evaluated THEN @ + 1 ELSE @]
        /\ watch_pc' = IF (evaluated /\ f.ret) \/ (args.no_follow /\ timeup)
                       THEN "set_done" ELSE "loop"
    /\ UNCHANGED <<dbvars, initialized, stopevent, queue, job, purged, done,
                   args, timeup, main_pc, db_pc, server, last, accepted,
                   exitvars, started, logged, produced, observed, yielded>>

BatchJobs ==
    { j \in JobsOf({mynomad_namespace}, {WatchedJobID}, Indexes, {1}, {0},
                   JobStatuses) :
        j.Status = "dead" => j.ModifyIndex = MaxIndex }

BatchAllocs ==
    { a \in AllocsOf({mynomad_namespace}, {WatchedJobID}, Indexes, {0}, FALSE,
                     {"e1"}, {"running", "complete"}) : a.ID = "a1" }

BatchEvents ==
    EventsOf("Job", {"JobRegistered"}, BatchJobs)
    \cup EventsOf("Allocation", {"AllocationUpdated"}, BatchAllocs)

BatchInitBatches == InitBatchesOf(BatchJobs, {}, BatchAllocs, {})

BatchStreamBatches == SeqsUpTo(BatchEvents, 2)

BatchInit ==
    /\ WatcherInit(BatchJobs)
    /\ args \in { [NoArgs EXCEPT !.all = all] : all \in BOOLEAN }
    /\ server = None
    /\ ExitIdle

BatchNext ==
    \/ BatchTake(BatchInitBatches, BatchStreamBatches)
    \/ BatchApply
    \/ BatchYield
    \/ BatchHandle
    \/ BatchIf
    \/ SetDone
    \/ \E purge \in BOOLEAN : StopJob(purge)

BatchSpec == BatchInit /\ [][BatchNext]_vars

\* What Db.handle_events makes of the batch taken, from the cache and
\* self.job as they were when it was taken.
BatchResult == handle_events(args.all, locals.w, locals.db, locals.raw)

\* The whole batch is in the cache, and the list yielded is the list of its
\* accepted events.
BatchApplied ==
    /\ locals.applied = Len(locals.raw)
    /\ DB = BatchResult.db
    /\ locals.out = BatchResult.out

\* C22: every batch is applied to the cache in full before the watcher
\* handles any of its events; the finish predicate is evaluated at most
\* once per batch, and only once every event yielded has been handled; done
\* is set only with the whole batch in the cache and handled.
C22_BatchAppliedFirst ==
    /\ [](watch_pc \in {"for", "set_done"} => BatchApplied)
    /\ [](locals.fn = "thread_run" =>
            /\ locals.finish_calls <= 1
            /\ locals.finish_calls = 1 =>
                    BatchApplied /\ locals.handled = Len(locals.out))
    /\ [][locals.fn = "thread_run" /\ locals'.fn = "thread_run"
            /\ locals'.handled # locals.handled /\ locals'.raw = locals.raw
            /\ locals'.handled > 0
            => BatchApplied /\ UNCHANGED dbvars]_vars
    /\ [][watch_pc' = "set_done" /\ watch_pc # "set_done" =>
            /\ BatchApplied /\ locals.handled = Len(locals.out)
            /\ UNCHANGED dbvars
            /\ (~done /\ ~args.all /\ locals'.finish_calls = 1
                    /\ finish_cb(job, DB, foundjob, purged).ret)
               \/ (args.no_follow /\ timeup)]_vars
    /\ [][~done /\ done' =>
            /\ watch_pc = "set_done"
            /\ BatchApplied /\ locals.handled = Len(locals.out)
            /\ UNCHANGED dbvars]_vars

\* A batch of two events, a stale one dropped and the dead job accepted,
\* was applied and handled, the finish predicate was evaluated once on it
\* and done was set.
C22_Witness ==
    /\ locals.fn = "thread_run"
    /\ Len(locals.raw) = 2
    /\ Len(locals.out) = 1
    /\ locals.handled = 1
    /\ locals.finish_calls = 1
    /\ locals.db # DB
    /\ initialized
    /\ done

----------------------------------------------------------------------------
(* NoFollowSpec: the threads of a watcher run with --no-follow.  The       *)
(* deadline no_follow_timeend passes at any moment; fairness is that of    *)
(* ThreadsSpec, and time passes: the arrival of a line of the stream is    *)
(* left to the scheduler.  The main thread waits for done (mode_job).      *)

\* time.time() > no_follow_timeend becomes true.
DeadlinePasses ==
    /\ process_alive
    /\ ~timeup
    /\ timeup' = TRUE
    /\ UNCHANGED <<dbvars, initialized, stopevent, queue, job, foundjob,
                   purged, done, args, main_pc, db_pc, watch_pc, server, last,
                   accepted, exitvars, othervars>>

NoFollowJobs ==
    JobsOf({mynomad_namespace}, {WatchedJobID}, {1}, {1}, {0}, {"running"})

NoFollowBatches ==
    {<<>>}
    \cup { <<e>> : e \in
            EventsOf("Job", {"JobRegistered"},
                     { j \in JobsOf({mynomad_namespace}, {WatchedJobID},
                                    Indexes, {1}, {0}, JobStatuses) :
                            j.Status = "dead" => j.ModifyIndex = MaxIndex }) }

NoFollowInit ==
    /\ WatcherInit(NoFollowJobs)
    /\ args \in { [NoArgs EXCEPT !.polling = polling, !.no_follow = TRUE,
                                 !.no_preserve_status = nps] :
                    polling \in BOOLEAN, nps \in BOOLEAN }
    /\ server = [job |-> job, allocations |-> {}, outbox |-> <<>>]
    /\ ExitIdle

NoFollowNext ==
    \/ ThreadSteps(NoFollowBatches)
    \/ WaitAndStop
    \/ Exit
    \/ DeadlinePasses

NoFollowSpec ==
    /\ NoFollowInit
    /\ [][NoFollowNext]_vars
    /\ WF_vars(DeadlinePasses)
    /\ WF_vars(DbStart)
    /\ WF_vars(DbPoll)
    /\ WF_vars(DbFinally)
    /\ WF_vars(EventsFirst)
    /\ WF_vars(InitSetDone)
    /\ WF_vars(EventsResume)
    /\ WF_vars(EventsWhile)
    /\ WF_vars(EventsGet)
    /\ WF_vars(EventsSetDone)
    /\ WF_vars(WaitAndStop)

\* C23: with --no-follow, once the deadline has passed the watcher sets
\* done, whatever the finish predicate says and whether or not a further
\* batch arrives (stated for the runs whose watcher waits for a batch of
\* the event stream, as long as the stream stays open).
C23_DoneAtDeadline ==
    (args.no_follow /\ timeup /\ db_pc = "stream" /\ watch_pc = "get")
        ~> (done \/ db_pc # "stream")

\* The part of C23 the code keeps: a batch handled after the deadline sets
\* done whatever the finish predicate says.
C23_DoneAtNextBatch ==
    [][args.no_follow /\ timeup /\ yielded' # yielded =>
            watch_pc' \in {"set_done", "init_set_done"}]_vars

\* The finish condition of the Until-Finished watcher holds: the job is
\* dead, or purged and gone, with no active work.  (Under NoFollowSpec the
\* job is dead at its last ModifyIndex only and is not purged: the
\* condition holds for ever once it has held.)
FinishConditionMet == finish_cb(job, DB, foundjob, purged).ret

\* C24: with --no-preserve-status the exit code of the Until-Finished
\* watcher is success when its finish condition was met, and interrupted in
\* every other case in which it stopped, a stop at the --no-follow deadline
\* included.
C24_NoPreserveStatus ==
    (main_pc = "exited" /\ args.no_preserve_status) =>
        exitstatus = <<IF FinishConditionMet THEN ExitCode.success
                       ELSE ExitCode.interrupted>>

\* The part of C24 the code keeps: the exit code is success when the finish
\* condition was met.
C24_SuccessWhenFinished ==
    (main_pc = "exited" /\ args.no_preserve_status /\ FinishConditionMet) =>
        exitstatus = <<ExitCode.success>>

----------------------------------------------------------------------------
(* EvalSpec: nomad_watch_eval(evalid).  The main thread iterates over      *)
(* Db.events() of a Db whose select_event_cb accepts the Evaluation events *)
(* of evalid; locals holds eval_ (<<>> for None) and the message of the    *)
(* AssertionError raised, if any.                                          *)

evalid == "e1"

\* Db.handle_event with the select_event_cb of nomad_watch_eval
eval_handle_event(db, e) ==
    IF select_new_event(db, e)
    THEN IF \/ select_is_in_db(db, e)
            \/ (e.topic = "Evaluation" /\ e.data.ID = evalid)
         THEN [db |-> add_event_to_db(db, e), ret |-> TRUE]
         ELSE [db |-> db, ret |-> FALSE]
    ELSE [db |-> db, ret |-> FALSE]

\* Db.handle_events
RECURSIVE eval_handle_events(_, _, _)
eval_handle_events(db, out, events) ==
    IF events = <<>> THEN [db |-> db, out |-> out]
    ELSE LET r == eval_handle_event(db, Head(events))
         IN  eval_handle_events(r.db,
                                IF r.ret THEN Append(out, Head(events)) ELSE out,
                                Tail(events))

\* The inner for loop: eval_ takes the data of every event until one is
\* not pending.
RECURSIVE eval_for(_, _)
eval_for(eval_, events) ==
    IF events = <<>> THEN eval_
    ELSE IF Head(events).data.Status # "pending" THEN <<Head(events).data>>
    ELSE eval_for(<<Head(events).data>>, Tail(events))

\* The break of the outer loop
eval_break(eval_) == eval_ # <<>> /\ eval_[1].Status # "pending"

\* The two assertions after the loop, with any status but pending
\* accepted by the second
eval_asserts_not_pending(eval_) ==
    IF eval_ = <<>> THEN [pc |-> "failed", error |-> <<"AssertionError">>]
    ELSE IF eval_[1].Status # "pending" THEN [pc |-> "returned", error |-> <<>>]
    ELSE [pc |-> "failed",
          error |-> <<"did not complete", eval_[1].StatusDescription>>]

\* The two assertions after the loop: the position reached and the
\* message of the AssertionError
eval_asserts(eval_) ==
    IF eval_ = <<>> THEN [pc |-> "failed", error |-> <<"AssertionError">>]
    ELSE IF eval_[1].Status = "complete" THEN [pc |-> "returned", error |-> <<>>]
    ELSE [pc |-> "failed",
          error |-> <<"did not complete", eval_[1].StatusDescription>>]

\* The body of the outer loop for a batch of Db.events()
EvalBody(events) ==
    \E r \in {eval_handle_events(DB, <<>>, events)} :
    \E e \in {eval_for(locals.eval_, r.out)} :
        /\ db_job' = r.db.job
        /\ evaluations' = r.db.evaluations
        /\ allocations' = r.db.allocations
        /\ deployments' = r.db.deployments
        /\ locals' = [locals EXCEPT !.eval_ = e]
        /\ main_pc' = IF eval_break(e) THEN "stop" ELSE "loop"

\* Db.events(), first yield: init_cb() is the evaluation as the scheduler
\* has it now.
EvalFirst(evals) ==
    /\ main_pc = "start"
    /\ \E ev \in evals : EvalBody(<<Event("Evaluation", "EvaluationUpdated", ev)>>)
    /\ initialized' = FALSE
    /\ UNCHANGED <<stopevent, queue, job, foundjob, purged, done, args, timeup,
                   db_pc, watch_pc, server, last, accepted, exitvars, started,
                   logged, produced, observed, yielded>>

\* Db.events(), a later yield: a batch of the event stream.
EvalBatch(batches) ==
    /\ main_pc = "loop"
    /\ \E events \in batches : EvalBody(events)
    /\ initialized' = TRUE
    /\ UNCHANGED <<stopevent, queue, job, foundjob, purged, done, args, timeup,
                   db_pc, watch_pc, server, last, accepted, exitvars, started,
                   logged, produced, observed, yielded>>

\* Db.events() ends: the sentinel was taken from the queue.
EvalEnd ==
    /\ main_pc = "loop"
    /\ main_pc' = "stop"
    /\ initialized' = TRUE
    /\ UNCHANGED <<dbvars, stopevent, queue, job, foundjob, purged, done, args,
                   timeup, db_pc, watch_pc, server, last, accepted, exitvars,
                   othervars>>

\* db.stop(), then the two assertions.
EvalStop ==
    /\ main_pc = "stop"
    /\ \E flags \in {Db_stop([initialized |-> initialized,
                                stopevent |-> stopevent])} :
        /\ initialized' = flags.initialized
        /\ stopevent' = flags.stopevent
    /\ \E a \in {eval_asserts(locals.eval_)} :
        /\ main_pc' = a.pc
        /\ locals' = [locals EXCEPT !.error = a.error]
    /\ UNCHANGED <<dbvars, queue, job, foundjob, purged, done, args, timeup,
                   db_pc, watch_pc, server, last, accepted, exitvars, started,
                   logged, produced, observed, yielded>>

WatchEvalStatuses == {"pending", "complete", "blocked", "failed", "canceled"}

\* Evaluation records, of the evaluation watched and of another one, in
\* the namespace of the client and in another one.
WatchEvals ==
    { r \in [ID : {evalid, "e2"}, Namespace : {mynomad_namespace, "other"},
             ModifyIndex : Indexes, Status : WatchEvalStatuses,
             StatusDescription : {"d1", "d2"}] :
        (r.ID # evalid \/ r.Namespace # mynomad_namespace) =>
            r.StatusDescription = "d1" /\ r.Status = "complete" }

WatchEvalBatches ==
    SeqsUpTo({ Event("Evaluation", "EvaluationUpdated", ev) : ev \in WatchEvals },
             2)

EvalInit ==
    /\ WatcherInit({None})
    /\ args = NoArgs
    /\ server = None
    /\ taskhandlers = <<>> /\ exitstatus = <<>>
    /\ started = FALSE /\ logged = <<>> /\ produced = <<>>
    /\ observed = NoObserved /\ yielded = <<>>
    /\ locals = [fn |-> "nomad_watch_eval", eval_ |-> <<>>, error |-> <<>>]

EvalNext ==
    \/ EvalFirst({ ev \in WatchEvals : ev.ID = evalid })
    \/ EvalBatch(WatchEvalBatches)
    \/ EvalEnd
    \/ EvalStop

EvalSpec == EvalInit /\ [][EvalNext]_vars

\* C25: nomad_watch_eval goes on waiting only while no evaluation record
\* was observed or the last one observed is pending, and never returns in
\* that state; it returns normally only if the last record observed is
\* complete; it fails by an assertion, carrying the StatusDescription of
\* the record, for every other status and when the events end while
\* pending, and by an assertion when no record was ever observed.
C25_EvalOutcome ==
    /\ main_pc = "loop" =>
            locals.eval_ = <<>> \/ locals.eval_[1].Status = "pending"
    /\ main_pc = "returned" =>
            /\ locals.eval_ # <<>>
            /\ locals.eval_[1].Status = "complete"
            /\ locals.error = <<>>
    /\ main_pc = "failed" =>
            IF locals.eval_ = <<>> THEN locals.error = <<"AssertionError">>
            ELSE /\ locals.eval_[1].Status # "complete"
                 /\ locals.error = <<"did not complete",
                                     locals.eval_[1].StatusDescription>>
    /\ main_pc \in {"returned", "failed"} => stopevent
    /\ locals.eval_ # <<>> =>
            /\ locals.eval_[1].ID = evalid
            /\ locals.eval_[1] = evaluations[evalid]
                    \/ locals.eval_[1].Status # "pending"

\* The evaluation watched was observed blocked at its last ModifyIndex: the
\* function failed with the description of that record.
C25_Witness ==
    /\ main_pc = "failed"
    /\ locals.eval_ # <<>>
    /\ locals.eval_[1].Status = "blocked"
    /\ locals.eval_[1].ModifyIndex = MaxIndex
    /\ locals.eval_[1].StatusDescription = "d2"
    /\ locals.error = <<"did not complete", "d2">>
    /\ evalid \in DOMAIN evaluations
    /\ evaluations[evalid] = locals.eval_[1]

----------------------------------------------------------------------------
(* SummarySpec: job_finished_successfully and job_running_successfully     *)
(* (the --purge-successful policy) for every status of self.job and every  *)
(* value of the summed job summary the scheduler answers (server.summary). *)

MaxCount == 1

SummaryFields == {"Queued", "Complete", "Failed", "Running", "Starting", "Lost"}

\* job_finished_successfully without the test of the job status
job_finished_successfully_any_status(w, s) ==
    /\ s.Queued = 0
    /\ s.Complete # 0
    /\ s.Failed = 0
    /\ s.Running = 0
    /\ s.Starting = 0
    /\ s.Lost = 0

\* NomadJobWatcherUntilFinished.job_finished_successfully; w is self.job, s
\* the summed summary.
job_finished_successfully(w, s) ==
    IF w.Status # "dead" THEN FALSE
    ELSE /\ s.Queued = 0
         /\ s.Complete # 0
         /\ s.Failed = 0
         /\ s.Running = 0
         /\ s.Starting = 0
         /\ s.Lost = 0

\* NomadJobWatcherUntilFinished.job_running_successfully
job_running_successfully(w, s) ==
    IF w.Status = "dead" THEN job_finished_successfully(w, s)
    ELSE /\ s.Queued = 0
         /\ s.Failed = 0
         /\ s.Running # 0
         /\ s.Starting = 0
         /\ s.Lost = 0

\* mode_run: do.job_finished_successfully()
JobFinishedSuccessfully ==
    /\ locals' = [fn |-> "job_finished_successfully",
                  ret |-> job_finished_successfully(job, server.summary)]
    /\ UNCHANGED <<dbvars, initialized, stopevent, queue, job, foundjob,
                   purged, done, args, timeup, main_pc, db_pc, watch_pc,
                   server, last, accepted, exitvars, started, logged,
                   produced, observed, yielded>>

\* mode_stop_in: do.job_running_successfully()
JobRunningSuccessfully ==
    /\ locals' = [fn |-> "job_running_successfully",
                  ret |-> job_running_successfully(job, server.summary)]
    /\ UNCHANGED <<dbvars, initialized, stopevent, queue, job, foundjob,
                   purged, done, args, timeup, main_pc, db_pc, watch_pc,
                   server, last, accepted, exitvars, started, logged,
                   produced, observed, yielded>>

SummaryJobs ==
    JobsOf({mynomad_namespace}, {WatchedJobID}, {1}, {1}, {0},
           {"pending", "running", "dead"})

SummaryInit ==
    /\ WatcherInit(SummaryJobs)
    /\ args = NoArgs
    /\ server \in { [summary |-> s] : s \in [SummaryFields -> 0..MaxCount] }
    /\ ExitIdle

SummaryNext == JobFinishedSuccessfully \/ JobRunningSuccessfully

SummarySpec == SummaryInit /\ [][SummaryNext]_vars

\* The conditions on the summed metrics both functions share.
NothingPending(s) ==
    s.Queued = 0 /\ s.Failed = 0 /\ s.Starting = 0 /\ s.Lost = 0

\* C26 as stated: for every summed summary and job status,
\* job_finished_successfully() is true iff Queued, Failed, Starting and Lost
\* are 0 and Complete is not; job_running_successfully() is true iff Queued,
\* Failed, Starting and Lost are 0 and Running is not.
C26_SummaryOnly ==
    /\ locals.fn = "job_finished_successfully" =>
            (locals.ret <=>
                NothingPending(server.summary) /\ server.summary.Complete # 0)
    /\ locals.fn = "job_running_successfully" =>
            (locals.ret <=>
                NothingPending(server.summary) /\ server.summary.Running # 0)

\* C26, amended: job_finished_successfully() is true iff the job is dead,
\* Queued, Failed, Starting, Lost and Running are 0 and Complete is not;
\* job_running_successfully() is that same condition when the job is dead,
\* and otherwise true iff Queued, Failed, Starting and Lost are 0 and
\* Running is not.
C26_StatusAndSummary ==
    /\ locals.fn = "job_finished_successfully" =>
            (locals.ret <=>
                /\ job.Status = "dead"
                /\ NothingPending(server.summary)
                /\ server.summary.Running = 0
                /\ server.summary.Complete # 0)
    /\ locals.fn = "job_running_successfully" =>
            (locals.ret <=>
                /\ NothingPending(server.summary)
                /\ IF job.Status = "dead"
                   THEN /\ server.summary.Running = 0
                        /\ server.summary.Complete # 0
                   ELSE server.summary.Running # 0)

\* job_finished_successfully() answered FALSE for a running job whose
\* summary has Complete set and nothing queued, failed, starting or lost.
C26_Witness ==
    /\ locals.fn = "job_finished_successfully"
    /\ ~locals.ret
    /\ job.Status = "running"
    /\ NothingPending(server.summary)
    /\ server.summary.Complete # 0

----------------------------------------------------------------------------
(* PassSpec: the pass of Db.handle_event for the identities already        *)
(* cached.  The job is submitted again (Version and JobModifyIndex grow),  *)
(* so that the filter of the watcher rejects the later events of the       *)
(* evaluation, allocation and deployment of the older version.  last       *)
(* tells, of the last event handled, whether it was new (select_new_event: *)
(* namespace of the client and greater ModifyIndex), whether its identity  *)
(* was cached (select_is_in_db), what the filter of the watcher answered   *)
(* (ret), whether handle_event accepted it and whether the cache holds its *)
(* record afterwards.                                                      *)

PassJobs ==
    { j \in JobsOf({mynomad_namespace}, {WatchedJobID}, Indexes, Indexes,
                   Versions, {"running"}) : j.JobModifyIndex = j.ModifyIndex }

PassEvals ==
    EvalsOf({mynomad_namespace}, {WatchedJobID}, Indexes, {1}, FALSE,
            {"complete"})

PassAllocs ==
    AllocsOf(Namespaces, {WatchedJobID}, Indexes, {0}, FALSE, {"e1"},
             {"complete"})

PassDeploys ==
    DeploysOf({mynomad_namespace}, {WatchedJobID}, Indexes, {1}, FALSE,
              {"successful"})

PassEvents ==
    EventsOf("Job", {"JobRegistered"}, PassJobs)
    \cup EventsOf("Evaluation", {"EvaluationUpdated"}, PassEvals)
    \cup EventsOf("Allocation", {"AllocationUpdated"}, PassAllocs)
    \cup EventsOf("Deployment", {"DeploymentStatusUpdate"}, PassDeploys)

PassInit ==
    /\ WatcherInit(PassJobs)
    /\ args = NoArgs
    /\ server = None
    /\ ExitIdle

PassNext ==
    \/ ThreadRunInit(InitBatchesOf(PassJobs, PassEvals, PassAllocs,
                                   PassDeploys), "filter")
    \/ ThreadRunStream(StreamBatchesOf(PassEvents), "filter")

PassSpec == PassInit /\ [][PassNext]_vars

\* C27: an event of the Evaluation, Allocation or Deployment topic whose
\* identity is cached, of the client's namespace and with a greater
\* ModifyIndex, is accepted, cached and yielded whatever the filter of the
\* watcher answers; an event of the Job topic is accepted only if that
\* filter answers true, as is every event whose identity is not cached; no
\* event is accepted that is not new.
C27_CachedIdentityPass ==
    last.topic # "none" =>
        /\ (last.topic # "Job" /\ last.indb /\ last.new) =>
                last.handled /\ last.cached
        /\ last.topic = "Job" =>
                /\ ~last.indb
                /\ last.handled <=> (last.new /\ last.ret)
        /\ ~last.indb => (last.handled <=> (last.new /\ last.ret))
        /\ last.handled => last.new /\ last.cached

\* An Allocation event of a cached identity was accepted and cached
\* although the filter of the watcher rejected it.
C27_Witness ==
    /\ last.topic = "Allocation"
    /\ last.indb /\ last.new
    /\ ~last.ret
    /\ last.handled /\ last.cached

----------------------------------------------------------------------------
(* LoggersSpec: the loggers and the stop timer of one task handler, for    *)
(* every choice of the streams enabled (logformat.stdout,                  *)
(* logformat.stderr).  Snapshots of the task arrive in every state; the    *)
(* timer fires three seconds after it was started unless cancelled;        *)
(* AllocWorkers.stop() stops the handler at any moment.                    *)

\* Logger.stop() for every logger of the list
RECURSIVE loggers_stop(_)
loggers_stop(loggers) ==
    IF loggers = <<>> THEN <<>>
    ELSE <<[Head(loggers) EXCEPT !.exitevent = TRUE]>>
         \o loggers_stop(Tail(loggers))

\* TaskHandler.stop(): the handler after the call; cancel() stops a timer
\* that has not fired yet.
taskhandler_stop(th) ==
    [th EXCEPT
        !.stoptimer = IF @ = "pending" THEN "cancelled" ELSE @,
        !.loggers = IF @ = <<>> THEN <<>> ELSE <<loggers_stop(@[1])>>]

\* threading.Timer(3, self.stop) fires: self.stop() runs in the thread of
\* the timer.
TimerFires ==
    /\ taskhandlers # <<>>
    /\ taskhandlers[1].stoptimer = "pending"
    /\ taskhandlers' =
            <<[taskhandler_stop(taskhandlers[1]) EXCEPT !.stoptimer = "fired"]>>
    /\ UNCHANGED <<dbvars, initialized, stopevent, queue, job, foundjob,
                   purged, done, args, timeup, main_pc, db_pc, watch_pc,
                   server, last, accepted, exitstatus, othervars>>

\* AllocWorkers.stop(): TaskHandler.stop() of the handler.
TaskHandlerStop ==
    /\ taskhandlers # <<>>
    /\ taskhandlers' = <<taskhandler_stop(taskhandlers[1])>>
    /\ UNCHANGED <<dbvars, initialized, stopevent, queue, job, foundjob,
                   purged, done, args, timeup, main_pc, db_pc, watch_pc,
                   server, last, accepted, exitstatus, othervars>>

LoggersInit ==
    /\ WatcherInit(CacheWatched)
    /\ args \in { [TaskArgs(-1, FALSE) EXCEPT !.stdout = o, !.stderr = e] :
                    o \in BOOLEAN, e \in BOOLEAN }
    /\ server = None
    /\ ExitIdle

LoggersNext ==
    \/ NotifySnapshot(TermTaskStates)
    \/ TimerFires
    \/ TaskHandlerStop

LoggersSpec == LoggersInit /\ [][LoggersNext]_vars

\* The streams of the loggers of the handler, in the order of the list.
LoggerStreams(th) ==
    IF th.loggers = <<>> THEN <<>>
    ELSE [i \in DOMAIN th.loggers[1] |-> th.loggers[1][i].stderr]

\* Every logger of the handler has its exitevent set.
LoggersStopped(th) ==
    th.loggers # <<>> =>
        \A i \in DOMAIN th.loggers[1] : th.loggers[1][i].exitevent

\* C28: the loggers of a task are created at the first notify whose
\* snapshot is running or dead with a Started event (observed.started),
\* not before and never again; there is one logger per enabled stream and
\* none for a stream that is not enabled.
C28_LoggersOnce ==
    /\ [](taskhandlers # <<>> =>
            /\ taskhandlers[1].loggers # <<>> <=> observed.started
            /\ taskhandlers[1].loggers # <<>> =>
                    LoggerStreams(taskhandlers[1])
                        = (IF args.stdout THEN <<FALSE>> ELSE <<>>)
                          \o (IF args.stderr THEN <<TRUE>> ELSE <<>>))
    /\ [][(taskhandlers # <<>> /\ taskhandlers[1].loggers # <<>>) =>
            /\ taskhandlers'[1].loggers # <<>>
            /\ LoggerStreams(taskhandlers'[1]) = LoggerStreams(taskhandlers[1])
            /\ \A i \in DOMAIN taskhandlers[1].loggers[1] :
                    taskhandlers[1].loggers[1][i].exitevent =>
                        taskhandlers'[1].loggers[1][i].exitevent]_vars

\* With stderr alone enabled the task was seen running with its Started
\* event: the handler has one logger, of stderr, not stopped.
C28_Witness ==
    /\ taskhandlers # <<>>
    /\ ~args.stdout /\ args.stderr
    /\ observed.state = "running"
    /\ taskhandlers[1].loggers = <<<<Logger(TRUE)>>>>

\* C29: the stop timer is started at the first notify at which the task is
\* dead and the handler has loggers (observed.dead with a stream enabled),
\* not before and never again; once it has fired, or once stop() has
\* cancelled it, every logger has its exitevent set; stop() sets them
\* whatever the timer.
C29_StopTimerOnce ==
    /\ [](taskhandlers # <<>> =>
            /\ taskhandlers[1].stoptimer # "none" <=>
                    (observed.dead /\ (args.stdout \/ args.stderr))
            /\ taskhandlers[1].stoptimer \in {"fired", "cancelled"} =>
                    LoggersStopped(taskhandlers[1]))
    /\ [][taskhandlers # <<>> =>
            /\ taskhandlers[1].stoptimer # "none" =>
                    taskhandlers'[1].stoptimer
                        \in IF taskhandlers[1].stoptimer = "pending"
                            THEN {"pending", "fired", "cancelled"}
                            ELSE {taskhandlers[1].stoptimer}
            /\ taskhandlers'[1] = taskhandler_stop(taskhandlers[1]) =>
                    /\ LoggersStopped(taskhandlers'[1])
                    /\ taskhandlers'[1].stoptimer # "pending"]_vars

\* The timer of a dead task with both loggers fired and set their
\* exitevent.
C29_Witness ==
    /\ taskhandlers # <<>>
    /\ taskhandlers[1].stoptimer = "fired"
    /\ taskhandlers[1].loggers # <<>>
    /\ Len(taskhandlers[1].loggers[1]) = 2
    /\ LoggersStopped(taskhandlers[1])

----------------------------------------------------------------------------
(* TaskoutSpec: one Logger thread and the lines it receives.  locals holds *)
(* the fields of the Logger that taskout uses (self, <<>> before the       *)
(* Logger is created), the clock time.time_ns() (now), and observations:   *)
(* the clock when the Logger was created, the number of lines received,    *)
(* the last batch passed to taskout, the last batch with lines (data),     *)
(* the flag exitevent, the position of run (pc), the last step (op),       *)
(* whether lines were received after stop() (late), the                    *)
(* clock and the count (up to 2) of the calls of taskout, the lines        *)
(* emitted (out), and the buffer and the number of lines received before   *)
(* the call that flushed the buffer.  The lines of the stream are numbered *)
(* 1, 2, ... in upstream order; an empty batch is the periodic empty       *)
(* object of the stream.                                                   *)

MaxReceived == 4

\* Logger.__init__: the fields taskout uses; ignoretime_ns is 0 when not
\* tailing or when the window is over already.
Logger_init(a, now) ==
    [ignoredlines |-> <<>>,
     first_line |-> TRUE,
     ignoretime_ns |-> IF a.lines < 0 \/ START_NS + a.lines_timeout < now
                       THEN 0 ELSE START_NS + a.lines_timeout]

\* lines[: n] of Python, n >= 0
Slice(lines, n) == SubSeq(lines, 1, IF n < Len(lines) THEN n ELSE Len(lines))

\* taskout that keeps accumulating only while the window is open
taskout_window_only(self, a, lines, now) ==
    IF self.ignoretime_ns # 0 /\ now < self.ignoretime_ns
    THEN [self |-> [self EXCEPT !.first_line = FALSE,
                                !.ignoredlines = Slice(lines, a.lines)],
          out |-> <<>>]
    ELSE IF self.ignoretime_ns # 0
    THEN [self |-> [self EXCEPT !.ignoredlines = <<>>, !.ignoretime_ns = 0],
          out |-> self.ignoredlines \o lines]
    ELSE [self |-> self, out |-> lines]

\* Logger.taskout(lines): the Logger after the call and the lines logged.
taskout(self, a, lines, now) ==
    IF self.ignoretime_ns # 0 /\ (self.first_line \/ now < self.ignoretime_ns)
    THEN [self |-> [self EXCEPT !.first_line = FALSE,
                                !.ignoredlines = Slice(lines, a.lines)],
          out |-> <<>>]
    ELSE IF self.ignoretime_ns # 0
    THEN [self |-> [self EXCEPT !.ignoredlines = <<>>, !.ignoretime_ns = 0],
          out |-> self.ignoredlines \o lines]
    ELSE [self |-> self, out |-> lines]

\* TaskHandler._create_loggers: Logger(tk, stderr)
LoggerCreate ==
    /\ locals.self = <<>>
    /\ locals' = [locals EXCEPT !.self = <<Logger_init(args, locals.now)>>,
                                !.created = locals.now, !.op = "create"]
    /\ UNCHANGED <<dbvars, initialized, stopevent, queue, job, foundjob,
                   purged, done, args, timeup, main_pc, db_pc, watch_pc,
                   server, last, accepted, exitvars, started, logged,
                   produced, observed, yielded>>

\* Time passes.
ClockTick ==
    /\ locals.now <= MaxTime
    /\ locals' = [locals EXCEPT !.now = @ + 1, !.op = "tick"]
    /\ UNCHANGED <<dbvars, initialized, stopevent, queue, job, foundjob,
                   purged, done, args, timeup, main_pc, db_pc, watch_pc,
                   server, last, accepted, exitvars, started, logged,
                   produced, observed, yielded>>

\* run that reads exitevent after every object of the stream
run_break_any_record(k, exitevent) == exitevent

\* Logger.run: the loop is left after an empty object (k = 0 lines) when
\* exitevent is set
run_break(k, exitevent) == k = 0 /\ exitevent

\* Logger.stop
LoggerStop ==
    /\ locals.self # <<>>
    /\ ~locals.exitevent
    /\ locals' = [locals EXCEPT !.exitevent = TRUE, !.op = "stop"]
    /\ UNCHANGED <<dbvars, initialized, stopevent, queue, job, foundjob,
                   purged, done, args, timeup, main_pc, db_pc, watch_pc,
                   server, last, accepted, exitvars, started, logged,
                   produced, observed, yielded>>

\* Logger.run: the stream ends and the for loop with it.
LoggerEndOfStream ==
    /\ locals.self # <<>>
    /\ locals.pc = "run"
    /\ locals' = [locals EXCEPT !.pc = "end", !.op = "eof"]
    /\ UNCHANGED <<dbvars, initialized, stopevent, queue, job, foundjob,
                   purged, done, args, timeup, main_pc, db_pc, watch_pc,
                   server, last, accepted, exitvars, started, logged,
                   produced, observed, yielded>>

\* Logger.run: an object of the stream is read and taskout is called with
\* its k lines (none for the empty object, after which exitevent is read).
LoggerTaskout ==
    /\ locals.self # <<>>
    /\ locals.pc = "run"
    /\ \E k \in 0..(MaxLines + 1) :
        /\ locals.received + k <= MaxReceived
        /\ \E lines \in {[i \in 1..k |-> locals.received + i]} :
           \E r \in {taskout(locals.self[1], args, lines, locals.now)} :
            locals' = [locals EXCEPT
                !.self = <<r.self>>,
                !.received = @ + k,
                !.batch = lines,
                !.data = IF k > 0 THEN lines ELSE @,
                !.op = IF k > 0 THEN "data" ELSE "keepalive",
                !.pc = IF run_break(k, locals.exitevent) THEN "end" ELSE "run",
                !.late = @ \/ (k > 0 /\ locals.exitevent),
                !.calls = IF @ < 2 THEN @ + 1 ELSE 2,
                !.called = locals.now,
                !.out = @ \o r.out,
                !.flushed = IF /\ locals.self[1].ignoretime_ns # 0
                               /\ r.self.ignoretime_ns = 0
                            THEN <<[buffer |-> locals.self[1].ignoredlines,
                                    received |-> locals.received,
                                    data |-> locals.data]>>
                            ELSE @]
    /\ UNCHANGED <<dbvars, initialized, stopevent, queue, job, foundjob,
                   purged, done, args, timeup, main_pc, db_pc, watch_pc,
                   server, last, accepted, exitvars, started, logged,
                   produced, observed, yielded>>

TaskoutInit ==
    /\ WatcherInit(CacheWatched)
    /\ args \in { [all |-> FALSE, polling |-> FALSE, no_follow |-> FALSE,
                    lines |-> n, lines_timeout |-> t] :
                    n \in -1..MaxLines, t \in 0..1 }
    /\ server = None
    /\ taskhandlers = <<>> /\ exitstatus = <<>>
    /\ started = FALSE /\ logged = <<>> /\ produced = <<>>
    /\ observed = NoObserved /\ yielded = <<>>
    /\ locals = [fn |-> "Logger.run", self |-> <<>>, now |-> START_NS,
                 created |-> 0, received |-> 0, batch |-> <<>>,
                 calls |-> 0, called |-> 0, data |-> <<>>,
                 exitevent |-> FALSE, pc |-> "run", op |-> "none",
                 late |-> FALSE,
                 out |-> <<>>, flushed |-> <<>>]

TaskoutNext ==
    \/ LoggerCreate \/ ClockTick \/ LoggerTaskout
    \/ LoggerStop \/ LoggerEndOfStream

TaskoutSpec == TaskoutInit /\ [][TaskoutNext]_vars

\* The lines numbered from m + 1 to n
LinesFrom(m, n) == [i \in 1..(n - m) |-> m + i]

\* The end of the quiet window
WindowEnd == START_NS + args.lines_timeout

\* The Logger was created in tail mode with the quiet window open.
TailMode ==
    locals.self # <<>> /\ args.lines >= 0 /\ locals.created < WindowEnd

\* The Logger is accumulating: tail mode, buffer not flushed yet.
Accumulating == locals.self # <<>> /\ locals.self[1].ignoretime_ns # 0

\* The buffer holds the first args.lines lines of the last batch, nothing
\* was emitted while accumulating, and once the buffer is flushed the lines
\* emitted are the buffer followed by every line received from the
\* flushing call on, in order.
TailBufferAndOrder ==
    /\ Accumulating =>
            /\ locals.out = <<>>
            /\ locals.flushed = <<>>
            /\ Len(locals.self[1].ignoredlines) <= args.lines
            /\ locals.self[1].ignoredlines = Slice(locals.batch, args.lines)
    /\ (TailMode /\ ~Accumulating) =>
            /\ locals.flushed # <<>>
            /\ locals.out = locals.flushed[1].buffer
                                \o LinesFrom(locals.flushed[1].received,
                                             locals.received)
            /\ locals.self[1].ignoredlines = <<>>
    /\ \A i, k \in DOMAIN locals.out : i < k => locals.out[i] < locals.out[k]
    /\ (TailMode /\ locals.called < WindowEnd) => Accumulating

\* C30 as stated: in tail mode, with the window open when the Logger is
\* created, nothing is emitted and the buffer holds at most args.lines
\* lines of the last batch while the window is open; the first call of
\* taskout after the end of the window emits the buffer once, followed by
\* its own lines, and every line received afterwards is emitted once, in
\* order.
C30_FlushAtFirstCallAfterWindow ==
    /\ TailBufferAndOrder
    /\ (TailMode /\ locals.calls > 0 /\ locals.called >= WindowEnd) =>
            ~Accumulating

\* C30, amended: the same, the buffer being flushed by the first call of
\* taskout after the end of the window that is not the first call the
\* Logger receives: the first call is buffered (and trimmed to args.lines
\* lines) whatever the time.
C30_FlushAtLaterCallAfterWindow ==
    /\ TailBufferAndOrder
    /\ (TailMode /\ locals.calls = 2 /\ locals.called >= WindowEnd) =>
            ~Accumulating
    /\ (TailMode /\ locals.calls = 1) => Accumulating

\* With --lines 2 the Logger buffered the first two lines of a batch of
\* three while the window was open, and a call after the end of the window
\* emitted them followed by its own line.
C30_Witness ==
    /\ TailMode
    /\ args.lines = 2
    /\ locals.flushed # <<>>
    /\ locals.flushed[1].buffer = <<1, 2>>
    /\ locals.flushed[1].received = 3
    /\ locals.out = <<1, 2, 4>>

\* C31: an empty object of the stream changes neither the buffer nor the
\* output, so that the lines buffered from the latest batch with lines are
\* the ones emitted when the buffer is flushed.
C31_KeepAliveKeepsBuffer ==
    (TailMode /\ locals.flushed # <<>>) =>
        locals.flushed[1].buffer = Slice(locals.flushed[1].data, args.lines)

\* C32: after stop() the loop of run ends at the next empty object and not
\* before: it ends only at an empty object read with exitevent set or at
\* the end of the stream, an empty object read with exitevent set ends it,
\* and an object with lines read after stop() is passed to taskout and
\* leaves the loop running.
C32_StopAtKeepAlive ==
    [][ /\ (locals.pc = "run" /\ locals'.pc = "end") =>
            \/ locals'.op = "eof"
            \/ locals'.op = "keepalive" /\ locals.exitevent
        /\ (locals.pc = "run" /\ locals.exitevent /\ locals' # locals
                /\ locals'.op = "keepalive") => locals'.pc = "end"
        /\ (locals.exitevent /\ locals'.op = "data"
                /\ locals'.received > locals.received) =>
            /\ locals'.pc = "run"
            /\ locals'.batch = LinesFrom(locals.received, locals'.received)
            /\ \E r \in {taskout(locals.self[1], args, locals'.batch,
                                   locals.now)} :
                    /\ locals'.self = <<r.self>>
                    /\ locals'.out = locals.out \o r.out
      ]_vars

\* The loop ended at an empty object after lines were received, and passed
\* to taskout, after stop().
C32_Witness ==
    /\ locals.pc = "end"
    /\ locals.op = "keepalive"
    /\ locals.exitevent
    /\ locals.late
    /\ locals.out # <<>>

----------------------------------------------------------------------------
(* AllSpec: the Until-Finished watcher run with --all, with and without    *)
(* --no-follow.  The watched job is resubmitted (its Version grows with    *)
(* its ModifyIndex) and is dead at its last ModifyIndex; its allocations   *)
(* carry any JobVersion or none; evaluations come from the watched and     *)
(* from another job.  The deadline of --no-follow passes at any moment and *)
(* the main thread may call stop_job.                                      *)

AllJobs ==
    { j \in JobsOf({mynomad_namespace}, {WatchedJobID}, Indexes, Indexes,
                   Versions, {"running", "dead"}) :
        /\ j.JobModifyIndex = j.ModifyIndex
        /\ j.Version = IF j.ModifyIndex - 1 < MaxVersion
                       THEN j.ModifyIndex - 1 ELSE MaxVersion
        /\ j.Status = "dead" => j.ModifyIndex = MaxIndex }

AllEvals ==
    EvalsOf({mynomad_namespace}, JobIDs, {1}, {1}, FALSE, {"complete"})

AllAllocs ==
    AllocsOf({mynomad_namespace}, {WatchedJobID}, {1}, Versions, TRUE, {"e1"},
             {"complete"})

AllDeploys ==
    DeploysOf({mynomad_namespace}, {WatchedJobID}, {1}, {1}, FALSE,
              {"successful"})

AllEvents ==
    EventsOf("Job", {"JobRegistered"}, AllJobs)
    \cup EventsOf("Evaluation", {"EvaluationUpdated"}, AllEvals)
    \cup EventsOf("Allocation", {"AllocationUpdated"}, AllAllocs)
    \cup EventsOf("Deployment", {"DeploymentStatusUpdate"}, AllDeploys)

AllInitBatches == InitBatchesOf(AllJobs, AllEvals, AllAllocs, AllDeploys)

AllInit ==
    /\ WatcherInit({ j \in AllJobs : j.ModifyIndex = 1 })
    /\ args \in { [NoArgs EXCEPT !.all = TRUE, !.no_follow = nf] :
                    nf \in BOOLEAN }
    /\ server = None
    /\ ExitIdle

AllNext ==
    \/ ThreadRunInit(AllInitBatches, "filter")
    \/ ThreadRunStream(StreamBatchesOf(AllEvents), "filter")
    \/ SetDone
    \/ DeadlinePasses
    \/ \E purge \in BOOLEAN : StopJob(purge)

AllSpec == AllInit /\ [][AllNext]_vars

\* C33: with --all db_select_event_job accepts every event, whatever its
\* job version; finish_cb is never evaluated (the Until-Finished watcher
\* never records that it found the job); done becomes set only once the
\* deadline of --no-follow has passed, and never without --no-follow.
C33_AllWatchesForever ==
    /\ [](args.all =>
            /\ last.topic # "none" => last.ret
            /\ ~foundjob
            /\ ~args.no_follow => ~done)
    /\ [][(args.all /\ ~done /\ done') => (args.no_follow /\ timeup)]_vars

\* With --all and without --no-follow the cache holds a dead job and an
\* allocation of a version older than the job's, the finish predicate of
\* the Until-Finished watcher would hold, and done is not set.
C33_Witness ==
    /\ args.all /\ ~args.no_follow
    /\ ~done
    /\ db_job # None /\ db_job.Status = "dead"
    /\ \E a \in DOMAIN allocations :
            /\ "JobVersion" \in DOMAIN allocations[a]
            /\ allocations[a].JobVersion < job.Version
    /\ finish_cb(job, DB, foundjob, purged).ret
    /\ last.topic = "Allocation" /\ last.ret

----------------------------------------------------------------------------
(* stop_job and the threads (QueueSpec).  stop_job(purge) returns when     *)
(* main_pc becomes stopped; the scheduler serves the stop request of a     *)
(* purge afterwards (NomadPurgeJob).                                       *)

\* The watcher thread has handled the init snapshot: the body of the loop
\* of thread_run has run for it, its condition included, and Db.events()
\* was resumed.
InitSnapshotHandled ==
    /\ yielded # <<>>
    /\ yielded[1].src = "init"
    /\ watch_pc \notin {"init", "init_set_done", "init_resume", "crashed"}

\* C34: stop_job(purge) sends the stop request only once initialized is
\* set, the init snapshot having been handled by the watcher thread; with
\* purge it sets the purge flag and clears done in one step, before the
\* scheduler gets the request; without purge it changes neither the purge
\* flag nor done, set or not.
C34_StopJobAfterInit ==
    [][ /\ (main_pc = "start" /\ main_pc' = "stopped") =>
            /\ initialized /\ InitSnapshotHandled
            /\ server' = server
            /\ IF purged' THEN ~done' /\ ~purged
               ELSE done' = done /\ purged' = purged
        /\ server'.job # server.job =>
            /\ main_pc = "stopped" /\ purged /\ initialized
            /\ InitSnapshotHandled
      ]_vars

\* stop_job(purge = true) has returned before the scheduler served the
\* request: the purge flag is set and done, which the watcher thread had
\* set for the dead job, is cleared.
C34_Witness ==
    /\ main_pc = "stopped"
    /\ purged /\ ~done
    /\ server.job # None
    /\ last.fin = "true" /\ ~last.purged
    /\ watch_pc \in {"loop", "get"}
    /\ InitSnapshotHandled

\* C35: the Job slot and the maps of the cache are written only by the
\* thread that iterates over Db.events(), when a batch is yielded: a step
\* that changes them is a step of that thread, the Db thread (which only
\* puts items in the queue) and the main thread (stop_job, wait, stop,
\* exit code) standing still.
C35_SingleWriter ==
    [][dbvars' # dbvars =>
            /\ watch_pc \in {"init", "get"}
            /\ yielded' # yielded
            /\ db_pc' = db_pc /\ produced' = produced
            /\ main_pc' = main_pc /\ purged' = purged
            /\ stopevent' = stopevent /\ exitstatus' = exitstatus
      ]_vars

\* The consumer wrote the cache from a batch of the queue while the Db
\* thread was reading the stream and after the main thread called
\* stop_job.
C35_Witness ==
    /\ Len(yielded) >= 2
    /\ yielded[2].src = "queue" /\ yielded[2].out # <<>>
    /\ db_job # None /\ db_job.ModifyIndex > 1
    /\ db_pc = "stream"
    /\ main_pc = "stopped"

\* C36: once stop_job(purge = true) has returned, done is set only when
\* finish_cb, evaluated with the purge flag set, found the Job slot of the
\* cache cleared: a result finish_cb computed before the purge flag was
\* set never sets done after stop_job cleared it.
C36_NoStaleDone ==
    [][(purged /\ ~done /\ done') =>
            /\ last.fin = "true"
            /\ last.purged
            /\ db_job = None
      ]_vars

----------------------------------------------------------------------------
(* ShutdownSpec: the end of a watcher run with --no-follow on a running    *)
(* job.  The Db thread reads the stream, whose lines carry a snapshot of   *)
(* the one task of an allocation; the watcher thread, past the init        *)
(* snapshot, takes them from the queue and notifies the task handler, and  *)
(* sets done once the deadline has passed; the main thread waits for done  *)
(* and runs stop(): AllocWorkers.stop(), Db.stop(), AllocWorkers.join(),   *)
(* then exits.  main_pc is start, workers_stopped, db_stopped, stopping    *)
(* (stop() returned) or exited; locals.joined is the number of loggers     *)
(* AllocWorkers.join() has listed (<<>> before the call).                  *)

\* thread_run: the body of the loop for a batch with an Allocation event:
\* AllocWorkers.notify_alloc, then the condition of done, the finish
\* predicate being false for the running job.
ShutdownGet ==
    /\ process_alive
    /\ watch_pc = "get"
    /\ queue # <<>>
    /\ \E g \in {queue_get(queue)} :
        /\ queue' = g.rest
        /\ IF g.item = None
           THEN /\ watch_pc' = "exited"
                /\ UNCHANGED <<taskhandlers, observed>>
           ELSE \E taskstate \in {g.item.events[1]} :
                /\ taskhandlers' =
                        <<notify(args, IF taskhandlers = <<>> THEN TaskHandler
                                       ELSE taskhandlers[1], taskstate).th>>
                /\ observed' = Observed(observed, taskstate)
                /\ watch_pc' = IF args.no_follow /\ timeup
                               THEN "set_done" ELSE "loop"
    /\ UNCHANGED <<dbvars, initialized, stopevent, job, foundjob, purged,
                   done, args, timeup, main_pc, db_pc, server, last, accepted,
                   exitstatus, started, logged, produced, yielded, locals>>

\* NomadJobWatcher.stop(): self.allocworkers.stop()
AllocWorkersStop ==
    /\ main_pc = "start"
    /\ done
    /\ taskhandlers' = IF taskhandlers = <<>> THEN <<>>
                       ELSE <<taskhandler_stop(taskhandlers[1])>>
    /\ main_pc' = "workers_stopped"
    /\ UNCHANGED <<dbvars, initialized, stopevent, queue, job, foundjob,
                   purged, done, args, timeup, db_pc, watch_pc, server, last,
                   accepted, exitstatus, othervars>>

\* NomadJobWatcher.stop(): self.db.stop()
DbStop ==
    /\ main_pc = "workers_stopped"
    /\ \E flags \in {Db_stop([initialized |-> initialized,
                                stopevent |-> stopevent])} :
        /\ initialized' = flags.initialized
        /\ stopevent' = flags.stopevent
    /\ main_pc' = "db_stopped"
    /\ UNCHANGED <<dbvars, queue, job, foundjob, purged, done, args, timeup,
                   db_pc, watch_pc, server, last, accepted, exitvars,
                   othervars>>

\* NomadJobWatcher.stop(): self.allocworkers.join() lists the loggers the
\* handlers have now and joins them, for shutdown_timeout at most.
AllocWorkersJoin ==
    /\ main_pc = "db_stopped"
    /\ locals' = [locals EXCEPT !.joined =
            <<IF taskhandlers = <<>> \/ taskhandlers[1].loggers = <<>>
              THEN 0 ELSE Len(taskhandlers[1].loggers[1])>>]
    /\ main_pc' = "stopping"
    /\ UNCHANGED <<dbvars, initialized, stopevent, queue, job, foundjob,
                   purged, done, args, timeup, db_pc, watch_pc, server, last,
                   accepted, exitvars, started, logged, produced, observed,
                   yielded>>

ShutdownTaskStates ==
    { [State |-> st, Events |-> ev] :
        st \in {"pending", "running", "dead"},
        ev \in SeqsUpTo({[Type |-> "Started", Time |-> START_NS]}, 1) }

ShutdownInit ==
    /\ WatcherInit(NoFollowJobs)
    /\ args \in { [all |-> FALSE, polling |-> FALSE, no_follow |-> TRUE,
                    no_preserve_status |-> FALSE, lines |-> -1,
                    log_alloc |-> FALSE, stdout |-> o, stderr |-> TRUE] :
                    o \in BOOLEAN }
    /\ server = [job |-> job, allocations |-> {}, outbox |-> <<>>]
    /\ taskhandlers = <<>> /\ exitstatus = <<>>
    /\ started = FALSE /\ logged = <<>> /\ produced = <<>>
    /\ observed = NoObserved /\ yielded = <<>>
    /\ locals = [fn |-> "stop", joined |-> <<>>]

ShutdownNext ==
    \/ DbStart
    \/ DbStreamLine({ <<ts>> : ts \in ShutdownTaskStates })
    \/ DbStreamEOF
    \/ DbFinally
    \/ EventsFirst
    \/ InitSetDone
    \/ EventsResume
    \/ EventsWhile
    \/ ShutdownGet
    \/ EventsSetDone
    \/ DeadlinePasses
    \/ TimerFires
    \/ AllocWorkersStop
    \/ DbStop
    \/ AllocWorkersJoin
    \/ Exit

ShutdownSpec == ShutdownInit /\ [][ShutdownNext]_vars

\* C37: after stop() has run AllocWorkers.stop(), every Logger that
\* exists, then or later, has its exitevent set and is among the loggers
\* AllocWorkers.join() joins: the watcher thread starts no logger that is
\* never stopped.
C37_NoLoggerLeftRunning ==
    /\ (main_pc \notin {"start"} /\ taskhandlers # <<>>) =>
            LoggersStopped(taskhandlers[1])
    /\ (locals.joined # <<>> /\ taskhandlers # <<>>
            /\ taskhandlers[1].loggers # <<>>) =>
            locals.joined[1] = Len(taskhandlers[1].loggers[1])

\* C38: the assertion at the start of Db.events(), that the Db thread is
\* alive, holds whenever the watcher thread evaluates it, also when the Db
\* thread ended at once because the stream closed or failed.
C38_ThreadAliveAtEvents ==
    [][(watch_pc = "init" /\ watch_pc' # "init") => thread_is_alive]_vars

\* C39: whenever get_exitcode is called (stop() has returned and the
\* program has not exited yet, or has exited with the exit code computed)
\* stopevent is set and done is set, also when stop_job(purge = true) had
\* cleared done before the last wait().
C39_GetExitcodeAsserts ==
    main_pc \in {"stopping", "exited"} => (stopevent /\ done)

\* The program exited with an exit code after stop_job(purge = true)
\* cleared done and the watcher set it again for the purged job.
C39_Witness ==
    /\ main_pc = "exited"
    /\ exitstatus # <<>>
    /\ purged
    /\ last.fin = "true" /\ last.purged
    /\ db_job = None
    /\ stopevent /\ done

----------------------------------------------------------------------------
(* MainTasksSpec: the Until-Started watcher and the assertion of           *)
(* job_is_started, for a job whose task groups are the group of m, s and p *)
(* and a group whose tasks are a prestart task and a poststop task.        *)

Group3 == [Name |-> "g3", Tasks |-> <<TaskP, TaskR>>]

\* job_is_started: the assertion len(allmaintasks) > 0 fails.  It is
\* evaluated for a group when the groups before it have a passing
\* allocation whose main tasks are started and the group has a passing
\* allocation.
job_is_started_asserts(w, db, order) ==
    \E g \in DOMAIN w.TaskGroups :
        /\ \A h \in 1..(g - 1) :
            \E ga \in {groupallocs(w, db, order, w.TaskGroups[h])} :
                /\ ga # <<>>
                /\ allmaintasks(w.TaskGroups[h]) # {}
                /\ allmaintasks(w.TaskGroups[h])
                        \subseteq startedtasks(lastalloc(ga))
        /\ groupallocs(w, db, order, w.TaskGroups[g]) # <<>>
        /\ allmaintasks(w.TaskGroups[g]) = {}

\* thread_run of an Until-Started watcher, a later yield of Db.events():
\* the AssertionError of job_is_started ends the watcher thread.
MainTasksThreadRunStream(batches) ==
    /\ watch_pc = "loop"
    /\ initialized
    /\ exitstatus = <<>>
    /\ \E events \in batches :
        \E r \in {handle_events(args.all, job, DB, events)} :
        \E w \in {follow_job(job, r.db, r.out)} :
            IF /\ ~done /\ ~args.all
               /\ \E order \in OrdersOf(DOMAIN r.db.allocations) :
                        job_is_started_asserts(w, r.db, order)
            THEN /\ db_job' = r.db.job
                 /\ evaluations' = r.db.evaluations
                 /\ allocations' = r.db.allocations
                 /\ deployments' = r.db.deployments
                 /\ job' = w
                 /\ watch_pc' = "crashed"
                 /\ UNCHANGED <<started, last>>
            ELSE StartedThreadRunBody(events)
    /\ UNCHANGED <<initialized, stopevent, queue, foundjob, purged, done, args,
                   timeup, main_pc, db_pc, server, accepted, exitvars, logged,
                   produced, observed, yielded, locals>>

MainTasksJobs ==
    { Put(j, "TaskGroups", tgs) :
        j \in JobsOf({mynomad_namespace}, {WatchedJobID}, {MaxIndex}, {1},
                     {MaxVersion}, {"running"}),
        tgs \in {<<Group1>>, <<Group3>>, <<Group1, Group3>>} }

MainTasksInit ==
    /\ job \in MainTasksJobs
    /\ db_job = job
    /\ evaluations \in OptionalEntry(StartedEvals)
    /\ allocations \in
        { a1 @@ a3 :
            a1 \in OptionalEntry(StartedAllocsOf("a1", Group1, {1}, Versions)),
            a3 \in OptionalEntry(StartedAllocsOf("a3", Group3, {1}, {MaxVersion})) }
    /\ deployments = EmptyMap
    /\ initialized = TRUE
    /\ stopevent = FALSE
    /\ queue = <<>>
    /\ foundjob = FALSE
    /\ purged = FALSE
    /\ done = FALSE
    /\ timeup = FALSE
    /\ main_pc = "start"
    /\ db_pc = "start"
    /\ watch_pc = "loop"
    /\ last = NoLast
    /\ accepted = NoAccepted
    /\ args = NoArgs
    /\ server = None
    /\ ExitIdle

MainTasksNext ==
    \/ MainTasksThreadRunStream({<<>>})
    \/ SetDone
    \/ StartedRunAndExit

MainTasksSpec == MainTasksInit /\ [][MainTasksNext]_vars

\* C40: the assertion of job_is_started never fails: the watcher thread
\* never ends on it, done unset.
C40_MainTasksAssertion == watch_pc # "crashed"
====
